---- MODULE Spec2Model ----
(***************************************************************************)
(* A model of prune-state-vscdb.ts: one run of the tool against the        *)
(* state.vscdb files of a machine, with the external sqlite3 engine as     *)
(* the environment.  Every execSync of the engine is one step; its result  *)
(* (success, failure, new file size) is chosen by the environment.         *)
(*                                                                         *)
(* Text (argv tokens, keys, LIKE patterns, engine output) is a sequence    *)
(* of symbols; a symbol is one character or one indivisible word.          *)
(* A JavaScript null / NaN is the empty tuple, a present value v is <<v>>. *)
(* File sizes are kept in bytes; a size "in MB" of the source is the       *)
(* byte count over BytesPerMb, so  sizeMb < thresholdMb  is compared as    *)
(* bytes < thresholdMb * BytesPerMb.                                       *)
(***************************************************************************)
EXTENDS Integers, Sequences, FiniteSets, TLC

\* ------------------------------------------------------------------ bounds
MaxRows == 3
MaxKeep == 2
MaxDirs == 2

\* ------------------------------------------------------- program constants
BytesPerMb == 1048576
DefaultThresholdMb == 50
TopKeysLimit == 50

Null == <<>>
NoFile == "(no file)"
Some(v) == <<v>>

ALLOWED_TABLES == {<<"ItemTable">>, <<"cursorDiskKV">>}
DefaultTable == <<"ItemTable">>

\* ------------------------------------------------------------ text helpers
WhiteSpace == {" ", "\n", "\r", "\t"}
Digits == <<"0", "1", "2", "3", "4", "5", "6", "7", "8", "9">>

IsDigit(c) == \E d \in 1..10 : Digits[d] = c
DigitVal(c) == (CHOOSE d \in 1..10 : Digits[d] = c) - 1

RECURSIVE TrimStart(_)
TrimStart(s) ==
  IF s # <<>> /\ Head(s) \in WhiteSpace THEN TrimStart(Tail(s)) ELSE s

RECURSIVE TrimEnd(_)
TrimEnd(s) ==
  IF s # <<>> /\ s[Len(s)] \in WhiteSpace
  THEN TrimEnd(SubSeq(s, 1, Len(s) - 1)) ELSE s

\* String.prototype.trim
Trim(s) == TrimEnd(TrimStart(s))

RECURSIVE DigitsValue(_, _)
DigitsValue(s, acc) ==
  IF s # <<>> /\ IsDigit(Head(s))
  THEN DigitsValue(Tail(s), 10 * acc + DigitVal(Head(s)))
  ELSE acc

\* parseInt(s, 10): leading white space, an optional sign, then the longest
\* run of digits; NaN (Null) when no digit follows.
ParseInt(s) ==
  LET t == TrimStart(s)
      neg == t # <<>> /\ Head(t) = "-"
      u == IF t # <<>> /\ Head(t) \in {"-", "+"} THEN Tail(t) ELSE t
  IN IF u = <<>> \/ ~IsDigit(Head(u)) THEN Null
     ELSE Some(IF neg THEN 0 - DigitsValue(u, 0) ELSE DigitsValue(u, 0))

\* parseInt(x, 10) || 0
OrZero(v) == IF v = Null THEN 0 ELSE v[1]

\* The engine's decimal rendering of a non-negative integer.
RECURSIVE IntToText(_)
IntToText(n) ==
  IF n < 10 THEN <<Digits[n + 1]>>
  ELSE IntToText(n \div 10) \o <<Digits[(n % 10) + 1]>>

\* pattern.replace(/'/g, "''")
RECURSIVE EscapeQuotes(_)
EscapeQuotes(s) ==
  IF s = <<>> THEN <<>>
  ELSE (IF Head(s) = "'" THEN <<"'", "'">> ELSE <<Head(s)>>)
       \o EscapeQuotes(Tail(s))

\* `'${escaped}'`
LikeLiteral(p) == <<"'">> \o EscapeQuotes(p) \o <<"'">>

\* ------------------------------------------------------ the sqlite3 engine
\* The engine's reading of the body of a quoted SQL string: '' is one quote,
\* a single quote inside ends the literal early (a syntax error, Null).
RECURSIVE UnescapeBody(_)
UnescapeBody(s) ==
  IF s = <<>> THEN Some(<<>>)
  ELSE IF Head(s) = "'"
       THEN IF Len(s) >= 2 /\ s[2] = "'"
            THEN LET r == UnescapeBody(Tail(Tail(s)))
                 IN IF r = Null THEN Null ELSE Some(<<"'">> \o r[1])
            ELSE Null
       ELSE LET r == UnescapeBody(Tail(s))
            IN IF r = Null THEN Null ELSE Some(<<Head(s)>> \o r[1])

SqlStringValue(lit) ==
  IF Len(lit) < 2 \/ Head(lit) # "'" \/ lit[Len(lit)] # "'" THEN Null
  ELSE UnescapeBody(SubSeq(lit, 2, Len(lit) - 1))

\* LIKE folds the case of ASCII letters.
Lower(c) == CASE c = "A" -> "a" [] c = "B" -> "b" [] OTHER -> c

\* key LIKE pattern: % is any run of symbols, _ is any one symbol.
RECURSIVE Like(_, _)
Like(p, s) ==
  IF p = <<>> THEN s = <<>>
  ELSE IF Head(p) = "%"
       THEN Like(Tail(p), s) \/ (s # <<>> /\ Like(p, Tail(s)))
       ELSE /\ s # <<>>
            /\ (Head(p) = "_" \/ Lower(Head(p)) = Lower(Head(s)))
            /\ Like(Tail(p), Tail(s))

\* WHERE key LIKE pattern
Matching(rows, p) == {r \in rows : Like(p, r.key)}

\* A slip of the ORDER BY: the n lowest rowids.
LastNAscending(rows, p, n) ==
  {r \in Matching(rows, p) :
     Cardinality({q \in Matching(rows, p) : q.rowid < r.rowid}) < n}

\* SELECT rowid ... WHERE key LIKE pattern ORDER BY rowid DESC LIMIT n
\* (a negative LIMIT is no limit)
LastN(rows, p, n) ==
  IF n < 0 THEN Matching(rows, p)
  ELSE {r \in Matching(rows, p) :
          Cardinality({q \in Matching(rows, p) : q.rowid > r.rowid}) < n}

Stmt(kind, tbl, like, limit) ==
  [kind |-> kind, table |-> tbl, like |-> like, limit |-> limit]

\* Whether the engine can run the statement on this database content at all.
StmtRuns(content, s) ==
  /\ s.table = Null \/ s.table \in DOMAIN content
  /\ s.like = Null \/ SqlStringValue(s.like) # Null

\* SELECT COUNT(*) FROM table WHERE key LIKE literal;  (the printed line)
CountOutput(content, s, eol) ==
  IntToText(Cardinality(Matching(content[s.table], SqlStringValue(s.like)[1])))
    \o eol

\* DELETE FROM table WHERE key LIKE literal
\*    [AND rowid NOT IN (SELECT rowid ... ORDER BY rowid DESC LIMIT n)];
DeletedRows(content, s) ==
  LET p == SqlStringValue(s.like)[1]
  IN IF s.limit = Null THEN Matching(content[s.table], p)
     ELSE Matching(content[s.table], p) \ LastN(content[s.table], p, s.limit[1])

AfterDelete(content, s) ==
  [content EXCEPT ![s.table] = content[s.table] \ DeletedRows(content, s)]

\* VACUUM rewrites the file and leaves the rows alone; the size it leaves is
\* the engine's choice (the file can also grow: a page-size or auto_vacuum
\* change takes effect, or another process wrote to it).
SizePool == {10 * BytesPerMb, 50 * BytesPerMb, 60 * BytesPerMb}

\* Line ends of the engine's output (LF, or CR LF on Windows).
Eols == {<<"\n">>, <<"\r", "\n">>}

\* ------------------------------------------------------------------- state
VARIABLES
  pc,            \* where the run is
  argv,          \* process.argv.slice(2)
  options,       \* PruneOptions, once parsed
  exists,        \* the paths existsSync finds
  size,          \* statSync(path).size, in bytes
  db,            \* per database file: the tables it holds, name -> rows
  health,        \* per database file: what the two PRAGMA checks will find
  sqliteOnPath,  \* "sqlite3 --version" succeeds
  winInstalled,  \* which of the fallback sqlite3.exe paths exist
  calls,         \* the SQL statements sent to the engine, in order
  probes,        \* how many times the engine was looked for
  log,           \* what the run printed
  exitCode,      \* the process exit status, Null while running
  mainL,         \* locals of main
  pruneL,        \* locals of pruneDatabase
  vacL,          \* locals of vacuumDatabase
  delL,          \* locals of deleteKeysAndVacuum
  chkL,          \* locals of checkIntegrity
  cntL,          \* locals of countCategories
  anL,           \* locals of analyzeGlobalStateVscdb
  start,         \* db and size as they were when the run started
  sh,            \* variables and position of the PowerShell menu script
  cwd,           \* process.cwd()
  dirs           \* the cache directories on disk

vars ==
  <<pc, argv, options, exists, size, db, health, sqliteOnPath, winInstalled,
    calls, probes, log, exitCode, mainL, pruneL, vacL, delL, chkL, cntL, anL,
    start, sh, cwd, dirs>>

fixed ==
  <<argv, exists, health, sqliteOnPath, winInstalled, start, sh, cwd, dirs>>

\* -------------------------------------------------------- engine discovery
WinPaths ==
  << "C:/Program Files/SQLite/sqlite3.exe",
     "C:/Program Files (x86)/SQLite/sqlite3.exe",
     "%LOCALAPPDATA%/Programs/sqlite3/sqlite3.exe" >>

EngineNotFound == [error |-> "sqlite3 command not found", hint |-> "install"]

\* getSqlite3Command: the command, or Null where the source throws.
GetSqlite3Command ==
  IF sqliteOnPath THEN Some("sqlite3")
  ELSE IF \E i \in 1..Len(WinPaths) : WinPaths[i] \in winInstalled
       THEN Some(WinPaths[CHOOSE i \in 1..Len(WinPaths) :
                   /\ WinPaths[i] \in winInstalled
                   /\ \A j \in 1..(i - 1) : WinPaths[j] \notin winInstalled])
       ELSE Null

\* One execSync of the engine on a database file.
Call(file, stmt, ok) == [file |-> file, stmt |-> stmt, ok |-> ok]

\* What a statement that ran leaves in the file: only a DELETE changes rows.
EngineApply(content, s) ==
  IF s.kind = "DELETE" THEN AfterDelete(content, s) ELSE content

\* runSqliteQuery(filePath, sql, sqlite3): the statement goes to the engine
\* and, when it runs, takes effect.
RunSql(file, s, runs) ==
  /\ calls' = Append(calls, Call(file, s, runs))
  /\ db' = IF runs THEN [db EXCEPT ![file] = EngineApply(db[file], s)] ELSE db

\* The error execSync throws for a failed statement (runSqliteQuery adds
\* nothing to it).
QueryFailed(stmt) == [error |-> stmt.kind, hint |-> "none"]

\* A slip: the exception is swallowed and the run goes on to its normal end.
UncaughtSwallowed(err) ==
  /\ pc' = "main_return"
  /\ exitCode' = exitCode
  /\ log' = Append(log, <<"uncaught", err>>)

\* An exception nothing catches: Node prints it and exits with status 1.
Uncaught(err) ==
  /\ pc' = "exit"
  /\ exitCode' = Some(1)
  /\ log' = Append(log, <<"uncaught", err>>)

\* ---------------------------------------------------------- vacuumDatabase
\* vacuumDatabase(filePath, sqlite3Cmd?) is entered with vacL.caller naming
\* the caller: pruneDatabase catches what it throws, deleteKeysAndVacuum
\* (and main above it) does not.
VacuumFailed ==
  [error |-> "Failed to run VACUUM", hint |-> "Make sure Cursor/VS Code is closed"]

VacThrow(err) ==
  IF vacL.caller = "prune"
  THEN /\ pc' = "prune_catch"
       /\ log' = log
       /\ exitCode' = exitCode
       /\ pruneL' = [pruneL EXCEPT !.error = err]
  ELSE /\ Uncaught(err)
       /\ pruneL' = pruneL

\* const cmd = sqlite3Cmd ?? getSqlite3Command(); const beforeMb = ...
VacStart ==
  /\ pc = "vac_start"
  /\ LET cmd == IF vacL.cmd # Null THEN vacL.cmd ELSE GetSqlite3Command
     IN /\ probes' = IF vacL.cmd # Null THEN probes ELSE probes + 1
        /\ IF cmd = Null
           THEN /\ VacThrow(EngineNotFound)
                /\ vacL' = vacL
           ELSE /\ pc' = "vac_exec"
                /\ vacL' = [vacL EXCEPT !.cmd = cmd,
                                        !.beforeMb = Some(size[vacL.filePath])]
                /\ UNCHANGED <<log, exitCode, pruneL>>
  /\ UNCHANGED <<fixed, options, size, db, calls, mainL, delL, chkL, cntL, anL>>

\* execSync(`"${cmd}" "${filePath}" "VACUUM;"`)
VacExec ==
  /\ pc = "vac_exec"
  /\ \E ok \in BOOLEAN, newSize \in SizePool :
       /\ calls' = Append(calls,
                     Call(vacL.filePath, Stmt("VACUUM", Null, Null, Null), ok))
       /\ IF ok
          THEN /\ size' = [size EXCEPT ![vacL.filePath] = newSize]
               /\ pc' = "vac_end"
               /\ UNCHANGED <<log, exitCode, pruneL>>
          ELSE /\ size' = size
               /\ VacThrow(VacuumFailed)
  /\ UNCHANGED <<fixed, options, db, probes, mainL, vacL, delL, chkL, cntL, anL>>

\* What vacuumDatabase hands back: the two sizes as measured; savedMb is only
\* printed.
VacuumResult(beforeMb, afterMb) ==
  [beforeMb |-> beforeMb, afterMb |-> afterMb, savedMb |-> beforeMb - afterMb]

\* const afterMb = ...; return { beforeMb, afterMb }
VacEnd ==
  /\ pc = "vac_end"
  /\ LET r == VacuumResult(vacL.beforeMb[1], size[vacL.filePath])
     IN /\ vacL' = [vacL EXCEPT !.afterMb = Some(r.afterMb), !.result = Some(r)]
        /\ log' = Append(log, <<"Saved", vacL.filePath, r.savedMb>>)
        /\ pc' = IF vacL.caller = "prune" THEN "prune_ok" ELSE "del_freed"
  /\ UNCHANGED <<fixed, options, size, db, calls, probes, exitCode, mainL,
                 pruneL, delL, chkL, cntL, anL>>

NoVac ==
  [filePath |-> NoFile, cmd |-> Null, caller |-> "(none)", beforeMb |-> Null,
   afterMb |-> Null, result |-> Null]

EnterVac(file, cmd, caller) ==
  vacL' = [NoVac EXCEPT !.filePath = file, !.cmd = cmd, !.caller = caller]

\* ----------------------------------------------------- deleteKeysAndVacuum
\* const sqlite3 = getSqlite3Command();
DelLocate ==
  /\ pc = "del_locate"
  /\ probes' = probes + 1
  /\ IF GetSqlite3Command = Null
     THEN /\ Uncaught(EngineNotFound)
          /\ delL' = delL
     ELSE /\ pc' = "del_count"
          /\ delL' = [delL EXCEPT !.sqlite3 = GetSqlite3Command]
          /\ UNCHANGED <<log, exitCode>>
  /\ UNCHANGED <<fixed, options, size, db, calls, mainL, pruneL, vacL, chkL,
                 cntL, anL>>

CountStmt(tbl, pattern) == Stmt("COUNT", tbl, LikeLiteral(pattern), Null)

\* const countOut = runSqliteQuery(...); const count = parseInt(...) || 0;
\* if (count === 0) return;
DelCount ==
  /\ pc = "del_count"
  /\ \E ok \in BOOLEAN, eol \in Eols :
       LET s == CountStmt(delL.table, delL.pattern)
           runs == ok /\ StmtRuns(db[delL.filePath], s)
           count == OrZero(ParseInt(Trim(CountOutput(db[delL.filePath], s, eol))))
       IN /\ RunSql(delL.filePath, s, runs)
          /\ IF ~runs
             THEN /\ Uncaught(QueryFailed(s))
                  /\ delL' = delL
             ELSE /\ delL' = [delL EXCEPT !.count = Some(count)]
                  /\ exitCode' = exitCode
                  /\ IF count = 0
                     THEN /\ pc' = "main_return"
                          /\ log' = Append(log, <<"Nothing to delete">>)
                     ELSE /\ pc' = "del_plan"
                          /\ log' = log
  /\ UNCHANGED <<fixed, options, size, probes, mainL, pruneL, vacL, chkL,
                 cntL, anL>>

\* A slip: the retention count is not taken off.
ToDeleteIgnoringKeepLast(count, keepLast) == count

\* keepLast != null ? Math.max(0, count - keepLast) : count
ToDelete(count, keepLast) ==
  IF keepLast # Null
  THEN (IF count - keepLast[1] > 0 THEN count - keepLast[1] ELSE 0)
  ELSE count

\* const beforeMb = ...; const toDelete = ...; if (toDelete === 0) return;
DelPlan ==
  /\ pc = "del_plan"
  /\ LET n == ToDelete(delL.count[1], delL.keepLast)
     IN /\ delL' = [delL EXCEPT !.beforeMb = Some(size[delL.filePath]),
                                !.toDelete = Some(n)]
        /\ IF n = 0
           THEN /\ pc' = "main_return"
                /\ log' = Append(log, <<"Keeping last; nothing to delete">>)
           ELSE /\ pc' = "del_delete"
                /\ log' = log
  /\ UNCHANGED <<fixed, options, size, db, calls, probes, exitCode, mainL,
                 pruneL, vacL, chkL, cntL, anL>>

\* Slips of the DELETE: the retention clause always there, never there, one
\* row too many kept, the other table named.
DeleteStmtAlwaysKeeping(tbl, pattern, keepLast) ==
  Stmt("DELETE", tbl, LikeLiteral(pattern),
       IF keepLast = Null THEN Some(1) ELSE keepLast)

DeleteStmtNeverKeeping(tbl, pattern, keepLast) ==
  Stmt("DELETE", tbl, LikeLiteral(pattern), Null)

DeleteStmtOtherTable(tbl, pattern, keepLast) ==
  Stmt("DELETE", CHOOSE t \in ALLOWED_TABLES : t # tbl, LikeLiteral(pattern),
       keepLast)

\* The DELETE statement of the two branches of  if (keepLast != null).
DeleteStmt(tbl, pattern, keepLast) ==
  Stmt("DELETE", tbl, LikeLiteral(pattern), keepLast)

\* runSqliteQuery(filePath, `DELETE ...`, sqlite3); then vacuumDatabase(...)
DelDelete ==
  /\ pc = "del_delete"
  /\ \E ok \in BOOLEAN :
       LET s == DeleteStmt(delL.table, delL.pattern, delL.keepLast)
           runs == ok /\ StmtRuns(db[delL.filePath], s)
       IN /\ RunSql(delL.filePath, s, runs)
          /\ IF ~runs
             THEN /\ Uncaught(QueryFailed(s))
                  /\ vacL' = vacL
             ELSE /\ pc' = "vac_start"
                  /\ EnterVac(delL.filePath, delL.sqlite3, "delete")
                  /\ log' = Append(log, <<"Deleting", delL.toDelete[1]>>)
                  /\ exitCode' = exitCode
  /\ UNCHANGED <<fixed, options, size, probes, mainL, pruneL, delL, chkL,
                 cntL, anL>>

\* A slip: the two sizes the wrong way round.
FreedMbReversed(beforeMb, afterMb) == afterMb - beforeMb

\* (beforeMb - afterMb) of the "Freed:" line
FreedMb(beforeMb, afterMb) == beforeMb - afterMb

\* const afterMb = getFileSizeMb(filePath); console.log(`Freed: ...`)
DelFreed ==
  /\ pc = "del_freed"
  /\ log' = Append(log, <<"Freed", FreedMb(delL.beforeMb[1], size[delL.filePath])>>)
  /\ delL' = [delL EXCEPT !.afterMb = Some(size[delL.filePath])]
  /\ pc' = "main_return"
  /\ UNCHANGED <<fixed, options, size, db, calls, probes, exitCode, mainL,
                 pruneL, vacL, chkL, cntL, anL>>

NoDel ==
  [filePath |-> NoFile, pattern |-> Null, table |-> Null, keepLast |-> Null,
   sqlite3 |-> Null, count |-> Null, beforeMb |-> Null, toDelete |-> Null,
   afterMb |-> Null]

EnterDel(file, pattern, tbl, keepLast) ==
  delL' = [NoDel EXCEPT !.filePath = file, !.pattern = pattern,
                        !.table = tbl, !.keepLast = keepLast]

\* main returns (or falls off its end): the process exits with status 0.
MainReturn ==
  /\ pc = "main_return"
  /\ pc' = "exit"
  /\ exitCode' = Some(0)
  /\ UNCHANGED <<fixed, options, size, db, calls, probes, log, mainL, pruneL,
                 vacL, delL, chkL, cntL, anL>>

\* ------------------------------------------------------------ the machine
\* The state.vscdb paths the resolver probes, in probe order (APPDATA set).
\* The working directory is a project directory, or Cursor's
\* workspaceStorage directory itself.
ProjectDir == "cwd"
WsRoot == "APPDATA/Cursor/User/workspaceStorage"

\* join(workspacePath, '.vscode', 'state.vscdb') and the .cursor one
ProjectCandidatesIn(dir) ==
  IF dir = ProjectDir
  THEN <<"cwd/.vscode/state.vscdb", "cwd/.cursor/state.vscdb">>
  ELSE << "APPDATA/Cursor/User/workspaceStorage/.vscode/state.vscdb",
          "APPDATA/Cursor/User/workspaceStorage/.cursor/state.vscdb" >>

ProjectCandidates == ProjectCandidatesIn(cwd)

\* join(wsDir, id.name, 'state.vscdb') for the sub-directories .cursor,
\* .vscode and w1 of Cursor's workspaceStorage and w1 of Code's, in the
\* order readdirSync lists them.
WorkspaceStorageDbs ==
  << "APPDATA/Cursor/User/workspaceStorage/.cursor/state.vscdb",
     "APPDATA/Cursor/User/workspaceStorage/.vscode/state.vscdb",
     "APPDATA/Cursor/User/workspaceStorage/w1/state.vscdb",
     "APPDATA/Code/User/workspaceStorage/w1/state.vscdb" >>

GlobalCandidates ==
  << "APPDATA/Cursor/User/globalStorage/state.vscdb",
     "APPDATA/Code/User/globalStorage/state.vscdb" >>

Range(seq) == {seq[i] : i \in 1..Len(seq)}

DbFiles ==
  Range(ProjectCandidatesIn(ProjectDir)) \cup Range(ProjectCandidatesIn(WsRoot))
    \cup Range(WorkspaceStorageDbs) \cup Range(GlobalCandidates)

GlobalDb == GlobalCandidates[1]

\* Rows of a table: rowid, key and value; a value is known by its length.
NoKey == <<"(no row)">>
KeyPool == {<<"a", "1">>, <<"A", "b">>, <<"b", "'">>}
PatternPool == {<<"a", "%">>, <<"%", "'">>, <<"_", "b">>, <<"%">>}

RowsOf(f) ==
  {[rowid |-> r, key |-> f[r], value |-> 10 * r] :
     r \in {q \in DOMAIN f : f[q] # NoKey}}

TableContents(n) == {RowsOf(f) : f \in [1..n -> KeyPool \cup {NoKey}]}

\* One row per key of the pool, in every table the run is not about.
FullTable ==
  { [rowid |-> 1, key |-> <<"a", "1">>, value |-> 10],
    [rowid |-> 2, key |-> <<"A", "b">>, value |-> 20],
    [rowid |-> 3, key |-> <<"b", "'">>, value |-> 30] }

EmptyDb == [t \in ALLOWED_TABLES |-> {}]

NoOptions ==
  [workspace |-> TRUE, global |-> FALSE, thresholdMb |-> Some(DefaultThresholdMb),
   analyze |-> FALSE, checkIntegrity |-> FALSE, globalOnlyIntegrity |-> FALSE,
   countCategories |-> FALSE, deleteKeysPattern |-> Null,
   deleteTable |-> DefaultTable, keepLast |-> Null]

NoMain == [globalPath |-> Null, all |-> <<>>, i |-> 0, okCount |-> 0,
           prunedCount |-> 0, totalSavedMb |-> 0, beforeMb |-> Null]
NoPrune == [filePath |-> NoFile, label |-> "(none)", thresholdMb |-> Null,
            ret |-> "(none)", result |-> Null, error |-> Null]
NoChk == [filePath |-> NoFile, sqlite3 |-> Null, quick |-> Null,
          integrity |-> Null, ret |-> "(none)", result |-> Null]
NoCnt == [filePath |-> NoFile, sqlite3 |-> Null, i |-> 0, count |-> Null]
NoAn == [filePath |-> NoFile, sqlite3 |-> Null, tables |-> Null, t |-> 0,
         cols |-> Null]

\* ================================================ clear-cursor-cache.ps1
\* The PowerShell menu script. A path is the sequence of its segments, with
\* the separator between them; APPDATA and LOCALAPPDATA stand for the values
\* of the two environment variables.
Sep == "\\"

CursorDir(root, name) == <<root, Sep, "Cursor", Sep, name>>
CursorUserDir(root, name) == <<root, Sep, "Cursor", Sep, "User", Sep, name>>

CacheNames == <<"Cache", "CachedData", "Code Cache", "GPUCache", "logs">>

\* $allDirs of Clear-CacheDirs, in the order written.
AllDirs ==
  [k \in 1..5 |-> CursorDir("APPDATA", CacheNames[k])]
    \o [k \in 1..5 |-> CursorDir("LOCALAPPDATA", CacheNames[k])]
    \o << CursorUserDir("LOCALAPPDATA", "workspaceStorage"),
          CursorUserDir("LOCALAPPDATA", "History") >>

\* $value -like $pattern: * is any run of text, anything else is itself.
RECURSIVE WildLike(_, _)
WildLike(text, pattern) ==
  IF pattern = <<>> THEN text = <<>>
  ELSE IF Head(pattern) = "*"
       THEN WildLike(text, Tail(pattern))
              \/ (text # <<>> /\ WildLike(Tail(text), pattern))
       ELSE /\ text # <<>>
            /\ Head(pattern) = Head(text)
            /\ WildLike(Tail(text), Tail(pattern))

\* A slip: History is not held back.
KeptInLightCleanupButHistory(dir) ==
  ~WildLike(dir, <<"*", "workspaceStorage", "*">>)

\* Where-Object { $_ -notlike "*workspaceStorage*" -and $_ -notlike "*\History" }
KeptInLightCleanup(dir) ==
  /\ ~WildLike(dir, <<"*", "workspaceStorage", "*">>)
  /\ ~WildLike(dir, <<"*", Sep, "History">>)

\* The directories Clear-CacheDirs goes through.
DirsToClear(includeWorkspaceStorageAndHistory) ==
  IF includeWorkspaceStorageAndHistory THEN AllDirs
  ELSE SelectSeq(AllDirs, KeptInLightCleanup)

\* A directory on disk: there or not, holding entries or not, and the summed
\* length of the files under it.
AbsentDir == [exists |-> FALSE, entries |-> FALSE, bytes |-> 0]
EmptyDir == [exists |-> TRUE, entries |-> FALSE, bytes |-> 0]
ZeroByteDir == [exists |-> TRUE, entries |-> TRUE, bytes |-> 0]
FullDir(bytes) == [exists |-> TRUE, entries |-> TRUE, bytes |-> bytes]

NoDirs == [d \in Range(AllDirs) |-> AbsentDir]

\* The script's variables before it has asked anything.
NoShell ==
  [pc |-> "(none)", choice |-> Null, sub |-> Null, table |-> Null,
   pattern |-> Null, keepLast |-> Null, asked |-> <<>>, cmds |-> <<>>,
   out |-> <<>>, mode |-> "(none)", list |-> <<>>, i |-> 0, totalFreed |-> 0,
   okDirs |-> {}, failedDirs |-> {}, stopped |-> FALSE, dirs0 |-> NoDirs]

\* What every run starts with, whatever it is given.
InitRun ==
  /\ calls = <<>>
  /\ probes = 0
  /\ log = <<>>
  /\ exitCode = Null
  /\ mainL = NoMain
  /\ pruneL = NoPrune
  /\ vacL = NoVac
  /\ chkL = NoChk
  /\ cntL = NoCnt
  /\ anL = NoAn
  /\ start = [db |-> db, size |-> size]
  /\ sh = NoShell
  /\ dirs = NoDirs

\* --------------------------------------- deleteKeysAndVacuum on its own
\* The global database holds any rows in the table named, the full table in
\* the other one (or the named table is missing from the file).
InitPrune ==
  /\ cwd = ProjectDir
  /\ pc = "del_locate"
  /\ argv = <<>>
  /\ options = NoOptions
  /\ exists = {GlobalDb}
  /\ size = [f \in DbFiles |-> IF f = GlobalDb THEN 60 * BytesPerMb ELSE 0]
  /\ health = [f \in DbFiles |-> "ok"]
  /\ sqliteOnPath \in BOOLEAN
  /\ winInstalled = {}
  /\ \E tbl \in ALLOWED_TABLES, pattern \in PatternPool,
        keep \in {Null} \cup {Some(n) : n \in 1..MaxKeep},
        rows \in TableContents(MaxRows), present \in BOOLEAN :
       /\ present \/ rows = {}
       /\ db = [f \in DbFiles |->
                  IF f = GlobalDb
                  THEN [t \in IF present THEN ALLOWED_TABLES
                                        ELSE ALLOWED_TABLES \ {tbl} |->
                          IF t = tbl THEN rows ELSE FullTable]
                  ELSE EmptyDb]
       /\ delL = [NoDel EXCEPT !.filePath = GlobalDb, !.pattern = pattern,
                               !.table = tbl, !.keepLast = keep]
  /\ InitRun

NextPrune ==
  \/ DelLocate
  \/ DelCount
  \/ DelPlan
  \/ DelDelete
  \/ VacStart
  \/ VacExec
  \/ VacEnd
  \/ DelFreed
  \/ MainReturn

SpecPrune == InitPrune /\ [][NextPrune]_vars

\* ------------------------------------------------- claims on PruneByPattern
\* The rows of the table the delete was asked about, now and at the start
\* (no rows when the file has no such table).
RowsNow(f, t) == IF t \in DOMAIN db[f] THEN db[f][t] ELSE {}
RowsAtStart(f, t) == IF t \in DOMAIN start.db[f] THEN start.db[f][t] ELSE {}

DelMatchedAtStart ==
  {r \in RowsAtStart(delL.filePath, delL.table) : Like(delL.pattern, r.key)}
DelMatchedNow ==
  {r \in RowsNow(delL.filePath, delL.table) : Like(delL.pattern, r.key)}
DelRemoved ==
  RowsAtStart(delL.filePath, delL.table) \ RowsNow(delL.filePath, delL.table)

\* deleteKeysAndVacuum was called and came back without throwing.
DelCompleted ==
  pc = "exit" /\ exitCode = Some(0) /\ delL.filePath # NoFile

IssuedKinds == {calls[i].stmt.kind : i \in 1..Len(calls)}

Min(a, b) == IF a < b THEN a ELSE b
Max(a, b) == IF a > b THEN a ELSE b

\* C1: when deleteKeysAndVacuum runs with keepLast = null and completes
\* without an engine failure, no row of the target table has a key that
\* matches the pattern.
C1_DeleteAllLeavesNoMatch ==
  (DelCompleted /\ delL.keepLast = Null) => DelMatchedNow = {}

C1_Witness ==
  /\ DelCompleted
  /\ delL.keepLast = Null
  /\ Cardinality(DelMatchedAtStart) >= 2
  /\ "VACUUM" \in IssuedKinds
  /\ "'" \in Range(delL.pattern)

\* C2: a run with keepLast = N on a table with C matching rows that completes
\* removes exactly max(0, C - N) rows, all of them matching, and leaves
\* min(C, N) matching rows.
C2_KeepLastCounts ==
  (DelCompleted /\ delL.keepLast # Null) =>
     LET C == Cardinality(DelMatchedAtStart)
         N == delL.keepLast[1]
     IN /\ Cardinality(DelRemoved) = Max(0, C - N)
        /\ DelRemoved \subseteq DelMatchedAtStart
        /\ Cardinality(DelMatchedNow) = Min(C, N)

C2_Witness ==
  /\ DelCompleted
  /\ delL.keepLast = Some(2)
  /\ Cardinality(DelMatchedAtStart) = 3
  /\ Cardinality(DelRemoved) = 1

\* C3: with keepLast = N, every matching row that remains has a rowid at
\* least that of every matching row that was deleted, at every point of the
\* run.
C3_KeptAreHighestRowids ==
  (delL.filePath # NoFile /\ delL.keepLast # Null) =>
     \A kept \in DelMatchedNow :
       \A gone \in DelRemoved \cap DelMatchedAtStart :
         kept.rowid >= gone.rowid

C3_Witness ==
  /\ DelCompleted
  /\ delL.keepLast = Some(1)
  /\ \E kept \in DelMatchedNow : kept.rowid = MaxRows
  /\ \E gone \in DelRemoved : gone.rowid = 1
  /\ \E r \in RowsNow(delL.filePath, delL.table) :
       r.rowid = 2 /\ ~Like(delL.pattern, r.key)

\* C4: at every point of a prune run, failed or not, every row of the target
\* table whose key does not match the pattern, and every row of the other
\* table (and of every other file), is there with its key and value, and no
\* row has appeared.
C4_NonMatchingRowsUntouched ==
  delL.filePath # NoFile =>
    /\ \A f \in DbFiles :
         /\ DOMAIN db[f] = DOMAIN start.db[f]
         /\ \A t \in DOMAIN db[f] : db[f][t] \subseteq start.db[f][t]
         /\ \A t \in DOMAIN db[f] :
              \A r \in start.db[f][t] :
                (f # delL.filePath \/ t # delL.table \/ ~Like(delL.pattern, r.key))
                  => r \in db[f][t]

C4_Witness ==
  /\ pc = "exit"
  /\ exitCode = Some(1)
  /\ DelRemoved # {}
  /\ \E r \in RowsNow(delL.filePath, delL.table) : ~Like(delL.pattern, r.key)
  /\ \E t \in ALLOWED_TABLES \ {delL.table} :
       \E r \in RowsNow(delL.filePath, t) : Like(delL.pattern, r.key)

\* C10: when no row matches, or keepLast is set and the matches number at
\* most keepLast, the run issues neither a DELETE nor a VACUUM and leaves the
\* database and the file size as they were; and a VACUUM is only ever issued
\* right after a DELETE that succeeded.
C10_NoOpWhenNothingToDelete ==
  delL.filePath # NoFile =>
    /\ LET C == Cardinality(DelMatchedAtStart)
       IN (C = 0 \/ (delL.keepLast # Null /\ C <= delL.keepLast[1])) =>
            /\ IssuedKinds \cap {"DELETE", "VACUUM"} = {}
            /\ db = start.db
            /\ size = start.size
    /\ \A i \in 1..Len(calls) :
         calls[i].stmt.kind = "VACUUM" =>
           /\ i > 1
           /\ calls[i - 1].stmt.kind = "DELETE"
           /\ calls[i - 1].ok

C10_Witness ==
  /\ DelCompleted
  /\ delL.keepLast = Some(2)
  /\ Cardinality(DelMatchedAtStart) = 2
  /\ delL.toDelete = Some(0)

\* ================================================================ parseArgs
Flag(name) == <<name>>

RECURSIVE ParseFrom(_, _, _)
ParseFrom(args, i, o) ==
  IF i > Len(args) THEN o
  ELSE
    LET arg == args[i]
        hasNext == i + 1 <= Len(args)
    IN IF arg = Flag("--workspace")
       THEN ParseFrom(args, i + 1, [o EXCEPT !.workspace = TRUE])
       ELSE IF arg = Flag("--global")
       THEN ParseFrom(args, i + 1, [o EXCEPT !.global = TRUE])
       ELSE IF arg = Flag("--analyze")
       THEN ParseFrom(args, i + 1, [o EXCEPT !.analyze = TRUE])
       ELSE IF arg = Flag("--check-integrity")
       THEN ParseFrom(args, i + 1, [o EXCEPT !.checkIntegrity = TRUE])
       ELSE IF arg = Flag("--global-only")
       THEN ParseFrom(args, i + 1, [o EXCEPT !.globalOnlyIntegrity = TRUE])
       ELSE IF arg = Flag("--count-categories")
       THEN ParseFrom(args, i + 1, [o EXCEPT !.countCategories = TRUE])
       ELSE IF arg = Flag("--threshold") /\ hasNext
       THEN ParseFrom(args, i + 2,
                      [o EXCEPT !.thresholdMb = ParseInt(args[i + 1])])
       ELSE IF arg = Flag("--table") /\ hasNext
       THEN ParseFrom(args, i + 2,
                      IF args[i + 1] \in ALLOWED_TABLES
                      THEN [o EXCEPT !.deleteTable = args[i + 1]]
                      ELSE o)
       ELSE IF arg = Flag("--delete-keys") /\ hasNext
       THEN ParseFrom(args, i + 2,
                      [o EXCEPT !.deleteKeysPattern = Some(args[i + 1])])
       ELSE IF arg = Flag("--keep-last") /\ hasNext
       THEN ParseFrom(args, i + 2,
                      LET n == ParseInt(args[i + 1])
                      IN IF n # Null /\ n[1] > 0
                         THEN [o EXCEPT !.keepLast = n]
                         ELSE o)
       ELSE ParseFrom(args, i + 1, o)

ParseArgs(args) == ParseFrom(args, 1, NoOptions)

\* if (options.deleteKeysPattern): neither null nor the empty string
Truthy(text) == text # Null /\ text[1] # <<>>

\* ============================================================ path resolver
FirstExisting(candidates) ==
  IF \E i \in 1..Len(candidates) : candidates[i] \in exists
  THEN Some(candidates[CHOOSE i \in 1..Len(candidates) :
              /\ candidates[i] \in exists
              /\ \A j \in 1..(i - 1) : candidates[j] \notin exists])
  ELSE Null

GetWorkspaceStatePath == FirstExisting(ProjectCandidates)
GetGlobalStatePath == FirstExisting(GlobalCandidates)

\* A slip: the seen set is not consulted.
AddPathUnseen(out, filePath, label) ==
  IF filePath \notin exists THEN out
  ELSE Append(out, [path |-> filePath, label |-> label])

\* add(filePath, label)
AddPath(out, filePath, label) ==
  IF filePath \notin exists \/ (\E k \in 1..Len(out) : out[k].path = filePath)
  THEN out
  ELSE Append(out, [path |-> filePath, label |-> label])

RECURSIVE AddWorkspaceStorage(_, _)
AddWorkspaceStorage(out, k) ==
  IF k > Len(WorkspaceStorageDbs) THEN out
  ELSE AddWorkspaceStorage(
         AddPath(out, WorkspaceStorageDbs[k], "WorkspaceStorage state.vscdb"),
         k + 1)

\* A slip: the global database is added before the others.
GetAllStateVscdbPathsGlobalFirst ==
  LET p == GetWorkspaceStatePath
      g == GetGlobalStatePath
      o0 == IF g # Null THEN AddPath(<<>>, g[1], "Global state.vscdb") ELSE <<>>
      o1 == IF p # Null
            THEN AddPath(o0, p[1], "Workspace (project) state.vscdb")
            ELSE o0
  IN AddWorkspaceStorage(o1, 1)

GetAllStateVscdbPaths ==
  LET p == GetWorkspaceStatePath
      g == GetGlobalStatePath
      o1 == IF p # Null
            THEN AddPath(<<>>, p[1], "Workspace (project) state.vscdb")
            ELSE <<>>
      o2 == AddWorkspaceStorage(o1, 1)
  IN IF g # Null THEN AddPath(o2, g[1], "Global state.vscdb") ELSE o2

\* ============================================================ pruneDatabase
\* A slip of the comparison: <= for <.
BelowThresholdOrEqual(bytes, thresholdMb) ==
  thresholdMb # Null /\ bytes <= thresholdMb[1] * BytesPerMb

\* sizeMb < thresholdMb  (false when the threshold is NaN)
BelowThreshold(bytes, thresholdMb) ==
  thresholdMb # Null /\ bytes < thresholdMb[1] * BytesPerMb

EnterPrune(file, label, thresholdMb, ret) ==
  pruneL' = [NoPrune EXCEPT !.filePath = file, !.label = label,
                            !.thresholdMb = thresholdMb, !.ret = ret]

\* const sizeMb = ...; if (sizeMb < thresholdMb) return false;
\* else try { vacuumDatabase(filePath); ...
PruneStart ==
  /\ pc = "prune_start"
  /\ IF BelowThreshold(size[pruneL.filePath], pruneL.thresholdMb)
     THEN /\ log' = Append(log, <<"below threshold, skipping", pruneL.filePath>>)
          /\ pruneL' = [pruneL EXCEPT !.result = Some(FALSE)]
          /\ pc' = "prune_ret"
          /\ vacL' = vacL
     ELSE /\ log' = Append(log, <<"above threshold, pruning", pruneL.filePath>>)
          /\ pruneL' = pruneL
          /\ pc' = "vac_start"
          /\ EnterVac(pruneL.filePath, Null, "prune")
  /\ UNCHANGED <<fixed, options, size, db, calls, probes, exitCode, mainL, delL,
                 chkL, cntL, anL>>

\* vacuumDatabase(filePath); return true;
PruneOk ==
  /\ pc = "prune_ok"
  /\ pruneL' = [pruneL EXCEPT !.result = Some(TRUE)]
  /\ pc' = "prune_ret"
  /\ UNCHANGED <<fixed, options, size, db, calls, probes, log, exitCode, mainL,
                 vacL, delL, chkL, cntL, anL>>

\* catch (error) { console.error(...); return false; }
PruneCatch ==
  /\ pc = "prune_catch"
  /\ pruneL' = [pruneL EXCEPT !.result = Some(FALSE)]
  /\ log' = Append(log, <<"Error pruning", pruneL.filePath, pruneL.error>>)
  /\ pc' = "prune_ret"
  /\ UNCHANGED <<fixed, options, size, db, calls, probes, exitCode, mainL, vacL,
                 delL, chkL, cntL, anL>>

\* =========================================================== checkIntegrity
OkLine == <<"ok">>
DamageLines(eol) ==
  <<"*** in database main ***">> \o eol \o <<"Page 7 is never used">> \o eol

\* What the two PRAGMAs print for a file: "index damaged" passes quick_check
\* (which skips the index checks) and fails integrity_check.
QuickCheckOutput(h, eol) ==
  IF h = "page damaged" THEN DamageLines(eol) ELSE OkLine \o eol
IntegrityCheckOutput(h, eol) ==
  IF h = "ok" THEN OkLine \o eol ELSE DamageLines(eol)

Healths == {"ok", "index damaged", "page damaged"}

\* A slip: the output is not looked at.
CheckPassedAlways(output) == TRUE

\* A slip: the output is compared as printed, line ending included.
CheckPassedUntrimmed(output) == output = OkLine

\* const quick = runSqliteQuery(...).trim(); const ok = quick === 'ok';
CheckPassed(output) == Trim(output) = OkLine

EnterChk(file, ret) ==
  chkL' = [NoChk EXCEPT !.filePath = file, !.ret = ret]

\* const sqlite3 = getSqlite3Command();  (outside the try)
ChkLocate ==
  /\ pc = "chk_locate"
  /\ probes' = probes + 1
  /\ IF GetSqlite3Command = Null
     THEN /\ Uncaught(EngineNotFound)
          /\ chkL' = chkL
     ELSE /\ pc' = "chk_quick"
          /\ chkL' = [chkL EXCEPT !.sqlite3 = GetSqlite3Command]
          /\ UNCHANGED <<log, exitCode>>
  /\ UNCHANGED <<fixed, options, size, db, calls, mainL, pruneL, vacL, delL,
                 cntL, anL>>

\* PRAGMA quick_check; if (!ok) return false;
ChkQuick ==
  /\ pc = "chk_quick"
  /\ \E ok \in BOOLEAN, eol \in Eols :
       LET s == Stmt("PRAGMA quick_check", Null, Null, Null)
           out == QuickCheckOutput(health[chkL.filePath], eol)
       IN /\ RunSql(chkL.filePath, s, ok)
          /\ IF ~ok
             THEN /\ log' = Append(log, <<"Error running check", QueryFailed(s)>>)
                  /\ chkL' = [chkL EXCEPT !.result = Some(FALSE)]
                  /\ pc' = chkL.ret
             ELSE IF ~CheckPassed(out)
             THEN /\ log' = Append(log, <<"Corruption detected (quick_check)">>)
                  /\ chkL' = [chkL EXCEPT !.quick = Some(Trim(out)),
                                          !.result = Some(FALSE)]
                  /\ pc' = chkL.ret
             ELSE /\ log' = log
                  /\ chkL' = [chkL EXCEPT !.quick = Some(Trim(out))]
                  /\ pc' = "chk_integrity"
  /\ UNCHANGED <<fixed, options, size, probes, exitCode, mainL, pruneL,
                 vacL, delL, cntL, anL>>

\* PRAGMA integrity_check; return integrityOk;
ChkIntegrity ==
  /\ pc = "chk_integrity"
  /\ \E ok \in BOOLEAN, eol \in Eols :
       LET s == Stmt("PRAGMA integrity_check", Null, Null, Null)
           out == IntegrityCheckOutput(health[chkL.filePath], eol)
       IN /\ RunSql(chkL.filePath, s, ok)
          /\ pc' = chkL.ret
          /\ IF ~ok
             THEN /\ log' = Append(log, <<"Error running check", QueryFailed(s)>>)
                  /\ chkL' = [chkL EXCEPT !.result = Some(FALSE)]
             ELSE IF ~CheckPassed(out)
             THEN /\ log' = Append(log, <<"Integrity check reported errors">>)
                  /\ chkL' = [chkL EXCEPT !.integrity = Some(Trim(out)),
                                          !.result = Some(FALSE)]
             ELSE /\ log' = Append(log, <<"No corruption detected">>)
                  /\ chkL' = [chkL EXCEPT !.integrity = Some(Trim(out)),
                                          !.result = Some(TRUE)]
  /\ UNCHANGED <<fixed, options, size, probes, exitCode, mainL, pruneL,
                 vacL, delL, cntL, anL>>

\* ========================================================== countCategories
CATEGORIES ==
  << [table |-> <<"cursorDiskKV">>, pattern |-> <<"bubbleId:", "%">>],
     [table |-> <<"cursorDiskKV">>, pattern |-> <<"checkpointId:", "%">>],
     [table |-> <<"cursorDiskKV">>, pattern |-> <<"composerData:", "%">>],
     [table |-> <<"cursorDiskKV">>, pattern |-> <<"agentKv:blob:", "%">>],
     [table |-> <<"ItemTable">>, pattern |-> <<"cursor.composer", "%">>] >>

\* A slip: the size query removes the rows it should measure.
SumStmtDeleting(tbl, pattern) == Stmt("DELETE", tbl, LikeLiteral(pattern), Null)

\* SELECT COALESCE(SUM(LENGTH(value)), 0) FROM table WHERE key LIKE literal;
SumStmt(tbl, pattern) == Stmt("SUM", tbl, LikeLiteral(pattern), Null)

RECURSIVE SumValues(_)
SumValues(rows) ==
  IF rows = {} THEN 0
  ELSE LET r == CHOOSE x \in rows : TRUE
       IN r.value + SumValues(rows \ {r})

SumOutput(content, s, eol) ==
  IntToText(SumValues(IF s.like = Null THEN content[s.table]
                      ELSE Matching(content[s.table], SqlStringValue(s.like)[1])))
    \o eol

EnterCnt(file) == cntL' = [NoCnt EXCEPT !.filePath = file, !.i = 1]

\* The loop moves to the next category, or the function returns to main,
\* which returns.
CntNext(i) == IF i + 1 > Len(CATEGORIES) THEN "main_return" ELSE "cnt_count"

CntLocate ==
  /\ pc = "cnt_locate"
  /\ probes' = probes + 1
  /\ IF GetSqlite3Command = Null
     THEN /\ Uncaught(EngineNotFound)
          /\ cntL' = cntL
     ELSE /\ pc' = "cnt_count"
          /\ cntL' = [cntL EXCEPT !.sqlite3 = GetSqlite3Command]
          /\ UNCHANGED <<log, exitCode>>
  /\ UNCHANGED <<fixed, options, size, db, calls, mainL, pruneL, vacL, delL,
                 chkL, anL>>

\* const countOut = runSqliteQuery(... COUNT ...)   (inside the loop's try)
CntCount ==
  /\ pc = "cnt_count"
  /\ \E ok \in BOOLEAN, eol \in Eols :
       LET c == CATEGORIES[cntL.i]
           s == CountStmt(c.table, c.pattern)
           runs == ok /\ StmtRuns(db[cntL.filePath], s)
       IN /\ RunSql(cntL.filePath, s, runs)
          /\ IF ~runs
             THEN /\ log' = Append(log, <<"Error", cntL.i, QueryFailed(s)>>)
                  /\ cntL' = [cntL EXCEPT !.i = cntL.i + 1]
                  /\ pc' = CntNext(cntL.i)
             ELSE /\ log' = log
                  /\ cntL' = [cntL EXCEPT !.count =
                       Some(OrZero(ParseInt(Trim(
                              CountOutput(db[cntL.filePath], s, eol)))))]
                  /\ pc' = "cnt_sum"
  /\ UNCHANGED <<fixed, options, size, probes, exitCode, mainL, pruneL,
                 vacL, delL, chkL, anL>>

\* const sumOut = runSqliteQuery(... SUM ...); console.log(row)
CntSum ==
  /\ pc = "cnt_sum"
  /\ \E ok \in BOOLEAN, eol \in Eols :
       LET c == CATEGORIES[cntL.i]
           s == SumStmt(c.table, c.pattern)
           runs == ok /\ StmtRuns(db[cntL.filePath], s)
       IN /\ RunSql(cntL.filePath, s, runs)
          /\ log' = IF ~runs
                    THEN Append(log, <<"Error", cntL.i, QueryFailed(s)>>)
                    ELSE Append(log, <<"Row", cntL.i, cntL.count[1],
                           OrZero(ParseInt(Trim(
                             SumOutput(db[cntL.filePath], s, eol))))>>)
          /\ cntL' = [cntL EXCEPT !.i = cntL.i + 1, !.count = Null]
          /\ pc' = CntNext(cntL.i)
  /\ UNCHANGED <<fixed, options, size, probes, exitCode, mainL, pruneL,
                 vacL, delL, chkL, anL>>

\* ================================================== analyzeGlobalStateVscdb
AnalyzedTables == <<<<"ItemTable">>, <<"cursorDiskKV">>>>

\* text.trim().split(/\r?\n/).map((s) => s.trim()).filter(Boolean):
\* the non-empty lines of the text, `line` being the one under way.
RECURSIVE SplitLinesFrom(_, _)
SplitLinesFrom(text, line) ==
  IF text = <<>> THEN (IF Trim(line) = <<>> THEN <<>> ELSE <<Trim(line)>>)
  ELSE IF Head(text) = "\n"
       THEN (IF Trim(line) = <<>> THEN <<>> ELSE <<Trim(line)>>)
            \o SplitLinesFrom(Tail(text), <<>>)
       ELSE SplitLinesFrom(Tail(text), Append(line, Head(text)))

SplitLines(text) == SplitLinesFrom(Trim(text), <<>>)

\* SELECT name FROM sqlite_master WHERE type='table' ORDER BY name;
TablesOutput(content, eol) ==
  (IF <<"ItemTable">> \in DOMAIN content THEN <<"ItemTable">> \o eol ELSE <<>>)
  \o (IF <<"cursorDiskKV">> \in DOMAIN content
      THEN <<"cursorDiskKV">> \o eol ELSE <<>>)

\* PRAGMA table_info(t): one line per column, cid|name|type|...
TableInfoOutput(eol) ==
  <<"0", "|", "key", "|", "TEXT">> \o eol
    \o <<"1", "|", "value", "|", "BLOB">> \o eol

\* (r.split('|')[1] || '').trim() for each line
RECURSIVE ColumnNames(_)
ColumnNames(text) ==
  IF Len(text) < 3 THEN <<>>
  ELSE IF text[2] = "|" /\ text[1] \notin WhiteSpace
       THEN <<text[3]>> \o ColumnNames(Tail(Tail(Tail(text))))
       ELSE ColumnNames(Tail(text))

EnterAn(file) == anL' = [NoAn EXCEPT !.filePath = file]

AnLocate ==
  /\ pc = "an_locate"
  /\ probes' = probes + 1
  /\ IF GetSqlite3Command = Null
     THEN /\ Uncaught(EngineNotFound)
          /\ anL' = anL
     ELSE /\ pc' = "an_tables"
          /\ anL' = [anL EXCEPT !.sqlite3 = GetSqlite3Command]
          /\ UNCHANGED <<log, exitCode>>
  /\ UNCHANGED <<fixed, options, size, db, calls, mainL, pruneL, vacL, delL,
                 chkL, cntL>>

\* const tablesOut = runSqliteQuery(...)  (the outer catch prints and returns)
AnTables ==
  /\ pc = "an_tables"
  /\ \E ok \in BOOLEAN, eol \in Eols :
       LET s == Stmt("TABLES", Null, Null, Null)
       IN /\ RunSql(anL.filePath, s, ok)
          /\ IF ~ok
             THEN /\ log' = Append(log, <<"Analysis failed", QueryFailed(s)>>)
                  /\ anL' = anL
                  /\ pc' = "after_analyze"
             ELSE /\ log' = log
                  /\ anL' = [anL EXCEPT
                       !.tables = Some(SplitLines(
                                    TablesOutput(db[anL.filePath], eol))),
                       !.t = 1]
                  /\ pc' = "an_table"
  /\ UNCHANGED <<fixed, options, size, probes, exitCode, mainL, pruneL,
                 vacL, delL, chkL, cntL>>

\* for (const table of [...]) { if (!tables.some(...)) continue;
\*   try { const infoOut = runSqliteQuery(PRAGMA table_info) ...
AnTable ==
  /\ pc = "an_table"
  /\ IF anL.t > Len(AnalyzedTables)
     THEN /\ pc' = "after_analyze"
          /\ log' = Append(log, <<"Sub-options to free space">>)
          /\ UNCHANGED <<anL, calls, db>>
     ELSE IF AnalyzedTables[anL.t] \notin Range(anL.tables[1])
     THEN /\ pc' = "an_table"
          /\ anL' = [anL EXCEPT !.t = anL.t + 1]
          /\ UNCHANGED <<log, calls, db>>
     ELSE \E ok \in BOOLEAN, eol \in Eols :
            LET s == Stmt("PRAGMA table_info", AnalyzedTables[anL.t], Null, Null)
                runs == ok /\ StmtRuns(db[anL.filePath], s)
            IN /\ RunSql(anL.filePath, s, runs)
               /\ IF ~runs
                  THEN /\ log' = Append(log, <<"Skipping", anL.t, QueryFailed(s)>>)
                       /\ anL' = [anL EXCEPT !.t = anL.t + 1]
                       /\ pc' = "an_table"
                  ELSE /\ log' = log
                       /\ anL' = [anL EXCEPT !.cols =
                                    Some(ColumnNames(TableInfoOutput(eol)))]
                       /\ pc' = "an_sum"
  /\ UNCHANGED <<fixed, options, size, probes, exitCode, mainL, pruneL,
                 vacL, delL, chkL, cntL>>

\* runTopKeys: SELECT SUM(LENGTH(valueCol)) FROM table;
AnSum ==
  /\ pc = "an_sum"
  /\ \E ok \in BOOLEAN, eol \in Eols :
       LET s == Stmt("SUM", AnalyzedTables[anL.t], Null, Null)
           runs == ok /\ StmtRuns(db[anL.filePath], s)
       IN /\ RunSql(anL.filePath, s, runs)
          /\ IF ~runs
             THEN /\ log' = Append(log, <<"Skipping", anL.t, QueryFailed(s)>>)
                  /\ anL' = [anL EXCEPT !.t = anL.t + 1]
                  /\ pc' = "an_table"
             ELSE /\ log' = Append(log, <<"total value size", anL.t,
                             OrZero(ParseInt(Trim(
                               SumOutput(db[anL.filePath], s, eol))))>>)
                  /\ anL' = anL
                  /\ pc' = "an_top"
  /\ UNCHANGED <<fixed, options, size, probes, exitCode, mainL, pruneL,
                 vacL, delL, chkL, cntL>>

\* runTopKeys: SELECT keyCol, ROUND(...) ... ORDER BY LENGTH(valueCol) DESC
\* LIMIT 50;
AnTop ==
  /\ pc = "an_top"
  /\ \E ok \in BOOLEAN :
       LET s == Stmt("TOP", AnalyzedTables[anL.t], Null, Some(TopKeysLimit))
           runs == ok /\ StmtRuns(db[anL.filePath], s)
       IN /\ RunSql(anL.filePath, s, runs)
          /\ log' = IF ~runs
                    THEN Append(log, <<"Skipping", anL.t, QueryFailed(s)>>)
                    ELSE Append(log, <<"Top keys by value size", anL.t>>)
          /\ anL' = [anL EXCEPT !.t = anL.t + 1]
          /\ pc' = "an_table"
  /\ UNCHANGED <<fixed, options, size, probes, exitCode, mainL, pruneL,
                 vacL, delL, chkL, cntL>>

\* ===================================================================== main
\* const options = parseArgs();
MainParse ==
  /\ pc = "main"
  /\ options' = ParseArgs(argv)
  /\ pc' = "dispatch"
  /\ UNCHANGED <<fixed, size, db, calls, probes, log, exitCode, mainL, pruneL,
                 vacL, delL, chkL, cntL, anL>>

\* if (options.countCategories) { ... countCategories(globalPath); return; }
MainCountCategories ==
  /\ pc = "dispatch"
  /\ options.countCategories
  /\ mainL' = [mainL EXCEPT !.globalPath = GetGlobalStatePath]
  /\ IF GetGlobalStatePath = Null
     THEN /\ log' = Append(log, <<"Global state.vscdb not found">>)
          /\ pc' = "main_return"
          /\ cntL' = cntL
     ELSE /\ log' = log
          /\ pc' = "cnt_locate"
          /\ EnterCnt(GetGlobalStatePath[1])
  /\ UNCHANGED <<fixed, options, size, db, calls, probes, exitCode, pruneL,
                 vacL, delL, chkL, anL>>

\* if (options.checkIntegrity) { ... return; }
MainCheckIntegrity ==
  /\ pc = "dispatch"
  /\ ~options.countCategories
  /\ options.checkIntegrity
  /\ IF options.globalOnlyIntegrity
     THEN /\ mainL' = [mainL EXCEPT !.globalPath = GetGlobalStatePath]
          /\ IF GetGlobalStatePath = Null
             THEN /\ log' = Append(log, <<"Global state.vscdb not found">>)
                  /\ pc' = "main_return"
                  /\ chkL' = chkL
             ELSE /\ log' = log
                  /\ pc' = "chk_locate"
                  /\ EnterChk(GetGlobalStatePath[1], "main_return")
     ELSE /\ mainL' = [mainL EXCEPT !.all = GetAllStateVscdbPaths, !.i = 1,
                                    !.okCount = 0]
          /\ IF GetAllStateVscdbPaths = <<>>
             THEN /\ log' = Append(log, <<"No state.vscdb found">>)
                  /\ pc' = "main_return"
                  /\ chkL' = chkL
             ELSE /\ log' = log
                  /\ pc' = "chk_locate"
                  /\ EnterChk(GetAllStateVscdbPaths[1].path, "int_next")
  /\ UNCHANGED <<fixed, options, size, db, calls, probes, exitCode, pruneL,
                 vacL, delL, cntL, anL>>

\* A slip: every database checked is counted as passed.
OkCountCountingAll(okCount, passed) == okCount + 1

\* if (checkIntegrity(filePath, label)) okCount++;
OkCountAfter(okCount, passed) == IF passed THEN okCount + 1 ELSE okCount

\* for (... of all) { if (checkIntegrity(filePath, label)) okCount++; }
IntNext ==
  /\ pc = "int_next"
  /\ LET okCount == OkCountAfter(mainL.okCount, chkL.result[1])
         i == mainL.i + 1
     IN /\ mainL' = [mainL EXCEPT !.okCount = okCount, !.i = i]
        /\ IF i > Len(mainL.all)
           THEN /\ log' = Append(log, <<"Integrity check complete", okCount,
                                        Len(mainL.all)>>)
                /\ pc' = "main_return"
                /\ chkL' = chkL
           ELSE /\ log' = log
                /\ pc' = "chk_locate"
                /\ EnterChk(mainL.all[i].path, "int_next")
  /\ UNCHANGED <<fixed, options, size, db, calls, probes, exitCode, pruneL,
                 vacL, delL, cntL, anL>>

\* A slip: the analysis branch is not barred by --check-integrity (the
\* integrity branch does not return).
MainAnalyzeDespiteIntegrity ==
  /\ pc = "dispatch"
  /\ ~options.countCategories
  /\ options.analyze
  /\ mainL' = [mainL EXCEPT !.globalPath = GetGlobalStatePath]
  /\ IF GetGlobalStatePath = Null
     THEN /\ log' = Append(log, <<"Global state.vscdb not found">>)
          /\ pc' = "main_return"
          /\ anL' = anL
     ELSE /\ log' = log
          /\ pc' = "an_locate"
          /\ EnterAn(GetGlobalStatePath[1])
  /\ UNCHANGED <<fixed, options, size, db, calls, probes, exitCode, pruneL,
                 vacL, delL, chkL, cntL>>

\* if (options.analyze) { ... analyzeGlobalStateVscdb(globalPath); ...
MainAnalyze ==
  /\ pc = "dispatch"
  /\ ~options.countCategories
  /\ ~options.checkIntegrity
  /\ options.analyze
  /\ mainL' = [mainL EXCEPT !.globalPath = GetGlobalStatePath]
  /\ IF GetGlobalStatePath = Null
     THEN /\ log' = Append(log, <<"Global state.vscdb not found">>)
          /\ pc' = "main_return"
          /\ anL' = anL
     ELSE /\ log' = log
          /\ pc' = "an_locate"
          /\ EnterAn(GetGlobalStatePath[1])
  /\ UNCHANGED <<fixed, options, size, db, calls, probes, exitCode, pruneL,
                 vacL, delL, chkL, cntL>>

\* if (options.deleteKeysPattern) { deleteKeysAndVacuum(...); } return;
AfterAnalyze ==
  /\ pc = "after_analyze"
  /\ IF Truthy(options.deleteKeysPattern)
     THEN /\ log' = Append(log, <<"Deleting keys by pattern">>)
          /\ pc' = "del_locate"
          /\ EnterDel(mainL.globalPath[1], options.deleteKeysPattern[1],
                      options.deleteTable, options.keepLast)
     ELSE /\ log' = log
          /\ pc' = "main_return"
          /\ delL' = delL
  /\ UNCHANGED <<fixed, options, size, db, calls, probes, exitCode, mainL,
                 pruneL, vacL, chkL, cntL, anL>>

\* console.log(`Pruning complete. ${prunedCount} database(s) pruned.`)
Summary(prunedCount) == <<"Pruning complete", prunedCount>>

\* if (options.global && !options.workspace) { ... }  and the summary
RunGlobal(m, lg) ==
  IF options.global /\ ~options.workspace
  THEN IF GetGlobalStatePath # Null
       THEN /\ pc' = "prune_start"
            /\ mainL' = [m EXCEPT !.globalPath = GetGlobalStatePath]
            /\ log' = lg
            /\ EnterPrune(GetGlobalStatePath[1], "Global state.vscdb",
                          options.thresholdMb, "global")
       ELSE /\ pc' = "main_return"
            /\ mainL' = m
            /\ log' = Append(Append(lg, <<"Global state.vscdb: Not found">>),
                             Summary(m.prunedCount))
            /\ pruneL' = pruneL
  ELSE /\ pc' = "main_return"
       /\ mainL' = m
       /\ log' = Append(lg, Summary(m.prunedCount))
       /\ pruneL' = pruneL

\* The vacuum run: if (options.workspace) { const all = ...; for (...) ...
MainVacuumRun ==
  /\ pc = "dispatch"
  /\ ~options.countCategories
  /\ ~options.checkIntegrity
  /\ ~options.analyze
  /\ LET all == GetAllStateVscdbPaths
         m == [mainL EXCEPT !.prunedCount = 0, !.totalSavedMb = 0]
     IN IF options.workspace /\ all # <<>>
        THEN /\ mainL' = [m EXCEPT !.all = all, !.i = 1,
                                   !.beforeMb = Some(size[all[1].path])]
             /\ log' = Append(log, <<"Pruning state.vscdb files">>)
             /\ pc' = "prune_start"
             /\ EnterPrune(all[1].path, all[1].label, options.thresholdMb, "ws")
        ELSE RunGlobal(m, IF options.workspace
                          THEN Append(Append(log, <<"Pruning state.vscdb files">>),
                                      <<"No state.vscdb found">>)
                          ELSE Append(log, <<"Pruning state.vscdb files">>))
  /\ UNCHANGED <<fixed, options, size, db, calls, probes, exitCode, vacL, delL,
                 chkL, cntL, anL>>

\* if (pruneDatabase(...)) { prunedCount++; totalSavedMb += ...; }
PruneReturned ==
  /\ pc = "prune_ret"
  /\ IF pruneL.ret = "ws"
     THEN LET m == IF pruneL.result[1]
                   THEN [mainL EXCEPT
                           !.prunedCount = mainL.prunedCount + 1,
                           !.totalSavedMb = mainL.totalSavedMb
                              + (mainL.beforeMb[1] - size[pruneL.filePath])]
                   ELSE mainL
              i == mainL.i + 1
          IN IF i <= Len(mainL.all)
             THEN /\ mainL' = [m EXCEPT !.i = i,
                                 !.beforeMb = Some(size[mainL.all[i].path])]
                  /\ log' = log
                  /\ pc' = "prune_start"
                  /\ EnterPrune(mainL.all[i].path, mainL.all[i].label,
                                options.thresholdMb, "ws")
             ELSE RunGlobal([m EXCEPT !.i = i], log)
     ELSE /\ mainL' = IF pruneL.result[1]
                      THEN [mainL EXCEPT !.prunedCount = mainL.prunedCount + 1]
                      ELSE mainL
          /\ log' = Append(log, Summary(mainL'.prunedCount))
          /\ pc' = "main_return"
          /\ pruneL' = pruneL
  /\ UNCHANGED <<fixed, options, size, db, calls, probes, exitCode, vacL, delL,
                 chkL, cntL, anL>>

\* ------------------------------------------------------- the runs checked
\* Tables of the global database with rows of the five categories.
CategoryTable ==
  { [rowid |-> 1, key |-> <<"bubbleId:", "1">>, value |-> 10],
    [rowid |-> 2, key |-> <<"a", "1">>, value |-> 20],
    [rowid |-> 3, key |-> <<"cursor.composer", "x">>, value |-> 30],
    [rowid |-> 4, key |-> <<"bubbleId:", "2">>, value |-> 40] }

GlobalContents ==
  { [t \in ALLOWED_TABLES |-> CategoryTable],
    [t \in {<<"ItemTable">>} |-> CategoryTable],
    EmptyDb }

ExistConfigs ==
  { {},
    {GlobalCandidates[1]},
    {ProjectCandidates[1], GlobalCandidates[1]},
    {ProjectCandidates[2], WorkspaceStorageDbs[3], GlobalCandidates[2]},
    {WorkspaceStorageDbs[3], WorkspaceStorageDbs[4]},
    {ProjectCandidates[1], ProjectCandidates[2], GlobalCandidates[1],
     GlobalCandidates[2]} }

EngineConfigs ==
  { [onPath |-> TRUE, installed |-> {}],
    [onPath |-> FALSE, installed |-> {}],
    [onPath |-> FALSE, installed |-> {WinPaths[2], WinPaths[3]}] }

ThresholdArgs ==
  { <<>>,
    <<Flag("--threshold"), <<"0">>>>,
    <<Flag("--threshold"), <<"6", "0">>>>,
    <<Flag("--threshold"), <<"M", "B">>>> }

ArgvVacuum ==
  {f \o t : f \in { <<>>, <<Flag("--workspace")>>, <<Flag("--global")>>,
                    <<Flag("--workspace"), Flag("--global")>> },
            t \in ThresholdArgs}

TableArgs ==
  { <<>>,
    <<Flag("--table"), <<"cursorDiskKV">>>>,
    <<Flag("--table"), <<"sqlite_master">>>> }

DeleteArgs ==
  { <<>>,
    <<Flag("--delete-keys"), <<"bubbleId:", "%">>>>,
    <<Flag("--delete-keys"), <<"a", "%">>>>,
    <<Flag("--delete-keys"), <<>>>> }

KeepArgs ==
  { <<>>,
    <<Flag("--keep-last"), <<"1">>>>,
    <<Flag("--keep-last"), <<"0">>>>,
    <<Flag("--keep-last"), <<"-", "3">>>>,
    <<Flag("--keep-last"), <<"a", "b", "c">>>>,
    <<Flag("--keep-last"), <<"1", "x">>>> }

ArgvAnalyze ==
  {<<Flag("--analyze")>> \o t \o d \o k :
     t \in TableArgs, d \in DeleteArgs, k \in KeepArgs}

ArgvIntegrity ==
  { <<Flag("--check-integrity")>>,
    <<Flag("--check-integrity"), Flag("--global-only")>>,
    <<Flag("--global"), Flag("--check-integrity")>> }

ArgvCount == { <<Flag("--count-categories")>> }

\* Several modes asked for at once, or options without their mode.
ArgvMixed ==
  { <<Flag("--count-categories"), Flag("--analyze"), Flag("--delete-keys"),
      <<"a", "%">>>>,
    <<Flag("--analyze"), Flag("--delete-keys"), <<"a", "%">>,
      Flag("--check-integrity"), Flag("--global-only")>>,
    <<Flag("--delete-keys"), <<"a", "%">>>>,
    <<Flag("--delete-keys"), <<"a", "%">>, Flag("--global"),
      Flag("--threshold"), <<"0">>>>,
    <<Flag("--analyze"), Flag("--delete-keys")>>,
    <<Flag("--analyze"), Flag("--delete-keys"), <<"a", "%">>>>,
    <<Flag("--global-only")>> }

InitMachine(cfg, sizes, contents, healths, engine) ==
  /\ exists = cfg
  /\ size = [f \in DbFiles |-> IF f \in cfg THEN sizes[f] ELSE 0]
  /\ db = [f \in DbFiles |->
             IF f \in cfg /\ f \in Range(GlobalCandidates) THEN contents
             ELSE EmptyDb]
  /\ health = [f \in DbFiles |-> IF f \in cfg THEN healths[f] ELSE "ok"]
  /\ sqliteOnPath = engine.onPath
  /\ winInstalled = engine.installed

AllOk == [f \in DbFiles |-> "ok"]
AllBig == [f \in DbFiles |-> 60 * BytesPerMb]

Init ==
  /\ cwd = ProjectDir
  /\ pc = "main"
  /\ options = NoOptions
  /\ delL = NoDel
  /\ \E engine \in EngineConfigs :
       \/ \E a \in ArgvVacuum \cup ArgvMixed, cfg \in ExistConfigs :
            \E sizes \in [DbFiles -> {10 * BytesPerMb, 60 * BytesPerMb}] :
              /\ \A f \in DbFiles \ cfg : sizes[f] = 60 * BytesPerMb
              /\ argv = a
              /\ InitMachine(cfg, sizes, [t \in ALLOWED_TABLES |-> CategoryTable],
                             AllOk, engine)
       \/ \E a \in ArgvAnalyze \cup ArgvCount,
             cfg \in {{}, {GlobalCandidates[1]}, {GlobalCandidates[2]}},
             contents \in GlobalContents :
            /\ cfg = {} => contents = EmptyDb
            /\ argv = a
            /\ InitMachine(cfg, AllBig, contents, AllOk, engine)
       \/ \E a \in ArgvIntegrity, cfg \in ExistConfigs :
            \E healths \in [DbFiles -> Healths] :
              /\ \A f \in DbFiles \ cfg : healths[f] = "ok"
              /\ argv = a
              /\ InitMachine(cfg, AllBig, EmptyDb, healths, engine)
  /\ InitRun

Next ==
  \/ MainParse
  \/ MainCountCategories
  \/ MainCheckIntegrity
  \/ MainAnalyze
  \/ MainVacuumRun
  \/ PruneStart
  \/ PruneOk
  \/ PruneCatch
  \/ PruneReturned
  \/ VacStart
  \/ VacExec
  \/ VacEnd
  \/ ChkLocate
  \/ ChkQuick
  \/ ChkIntegrity
  \/ IntNext
  \/ CntLocate
  \/ CntCount
  \/ CntSum
  \/ AnLocate
  \/ AnTables
  \/ AnTable
  \/ AnSum
  \/ AnTop
  \/ AfterAnalyze
  \/ DelLocate
  \/ DelCount
  \/ DelPlan
  \/ DelDelete
  \/ DelFreed
  \/ MainReturn

Spec == Init /\ [][Next]_vars


\* ------------------------------------------------- properties of the runs
CallsOn(f) == {i \in 1..Len(calls) : calls[i].file = f}
KindsOn(f) == {calls[i].stmt.kind : i \in CallsOn(f)}

\* The run asks, with --table, for a table outside ALLOWED_TABLES.
NamesForeignTable ==
  \E i \in 1..(Len(argv) - 1) :
    argv[i] = Flag("--table") /\ argv[i + 1] \notin ALLOWED_TABLES

\* C5: a delete request that names a table outside {ItemTable, cursorDiskKV}
\* fails before any SQL is issued: no COUNT, DELETE or VACUUM reaches the
\* engine and no row is removed from any table.
C5_ForeignTableFailsBeforeSql ==
  (NamesForeignTable /\ options.analyze /\ Truthy(options.deleteKeysPattern))
    => /\ IssuedKinds \cap {"COUNT", "DELETE", "VACUUM"} = {}
       /\ db = start.db

\* What the run does with such a request: the statements go to the default
\* table.
C5_Witness ==
  /\ NamesForeignTable
  /\ pc = "exit"
  /\ exitCode = Some(0)
  /\ delL.table = DefaultTable
  /\ "DELETE" \in IssuedKinds
  /\ db # start.db

\* The engine's quick_check output for the file says "ok".
QuickSaysOk(f) == \A eol \in Eols : Trim(QuickCheckOutput(health[f], eol)) = OkLine

IsKind(i, kind) == calls[i].stmt.kind = kind

\* C6: PRAGMA integrity_check is sent for a database only right after a
\* PRAGMA quick_check on the same database that ran and printed "ok"; when
\* quick_check fails or prints anything else, the database's check comes
\* back false with no integrity_check sent for it.
C6_IntegrityOnlyAfterQuickOk ==
  /\ \A i \in 1..Len(calls) :
       IsKind(i, "PRAGMA integrity_check")
         => /\ i > 1
            /\ IsKind(i - 1, "PRAGMA quick_check")
            /\ calls[i - 1].file = calls[i].file
            /\ calls[i - 1].ok
            /\ QuickSaysOk(calls[i].file)
  /\ \A i \in 1..Len(calls) :
       (IsKind(i, "PRAGMA quick_check")
          /\ (~calls[i].ok \/ ~QuickSaysOk(calls[i].file)))
         => /\ "PRAGMA integrity_check" \notin KindsOn(calls[i].file)
            /\ (chkL.filePath = calls[i].file /\ pc # "chk_quick")
                 => chkL.result = Some(FALSE)

\* A database whose quick_check printed damage was passed over and the next
\* database went through both checks.
C6_Witness ==
  /\ pc = "exit"
  /\ \E i \in 1..Len(calls) :
       /\ IsKind(i, "PRAGMA quick_check")
       /\ calls[i].ok
       /\ health[calls[i].file] = "page damaged"
       /\ "PRAGMA integrity_check" \notin KindsOn(calls[i].file)
  /\ "PRAGMA integrity_check" \in IssuedKinds

\* The run is the vacuum run of main and has read its arguments.
InVacuumRun ==
  /\ pc \notin {"main", "dispatch"}
  /\ ~options.countCategories
  /\ ~options.checkIntegrity
  /\ ~options.analyze

\* The file's size is under the threshold the run was given.
UnderThreshold(f) ==
  /\ options.thresholdMb # Null
  /\ start.size[f] < options.thresholdMb[1] * BytesPerMb

AtOrAboveThreshold(f) ==
  /\ options.thresholdMb # Null
  /\ start.size[f] >= options.thresholdMb[1] * BytesPerMb

\* pruneDatabase was called on the file and has come back.
PruneDone(f) ==
  \E k \in 1..Len(mainL.all) :
    /\ mainL.all[k].path = f
    /\ \/ k < mainL.i
       \/ k = mainL.i /\ pruneL.filePath = f /\ pruneL.result # Null

PruneCalled(f) ==
  \E k \in 1..Len(mainL.all) : mainL.all[k].path = f /\ k <= mainL.i

InLog(line) == \E i \in 1..Len(log) : log[i] = line

VacuumedFiles ==
  {f \in DbFiles : \E i \in CallsOn(f) : IsKind(i, "VACUUM") /\ calls[i].ok}

\* C7: pruneDatabase on a file whose size is under the threshold sends
\* nothing to the engine, leaves the file's size and content as they were,
\* logs the skip and returns false, so the file is not counted as pruned; on
\* a file whose size is at or above the threshold vacuumDatabase is entered
\* and VACUUM is sent whenever an engine is found.
C7_ThresholdGatesVacuum ==
  InVacuumRun =>
    /\ \A f \in DbFiles :
         (UnderThreshold(f) /\ PruneCalled(f))
           => /\ CallsOn(f) = {}
              /\ size[f] = start.size[f]
              /\ db[f] = start.db[f]
              /\ pruneL.filePath = f => vacL.filePath # f
              /\ PruneDone(f)
                   => /\ InLog(<<"below threshold, skipping", f>>)
                      /\ pruneL.filePath = f => pruneL.result = Some(FALSE)
    /\ (\A f \in DbFiles : PruneCalled(f) => UnderThreshold(f))
         => calls = <<>> /\ probes = 0
    /\ \A f \in DbFiles :
         (AtOrAboveThreshold(f) /\ PruneDone(f))
           => /\ ~InLog(<<"below threshold, skipping", f>>)
              /\ GetSqlite3Command # Null => "VACUUM" \in KindsOn(f)
              /\ GetSqlite3Command = Null
                   => InLog(<<"Error pruning", f, EngineNotFound>>)
    /\ mainL.prunedCount <= Cardinality(VacuumedFiles)
    /\ pc = "exit" => mainL.prunedCount = Cardinality(VacuumedFiles)

\* A run with --threshold 60 that skipped a 10 MB file and vacuumed a 60 MB
\* one.
C7_Witness ==
  /\ InVacuumRun
  /\ pc = "exit"
  /\ options.thresholdMb = Some(60)
  /\ mainL.prunedCount = 1
  /\ \E f, g \in DbFiles :
       /\ PruneDone(f) /\ UnderThreshold(f) /\ CallsOn(f) = {}
       /\ PruneDone(g) /\ start.size[g] = 60 * BytesPerMb
       /\ g \in VacuumedFiles

\* C8: vacuumDatabase never returns a normal {beforeMb, afterMb} result in
\* which the file is larger after VACUUM than before; a larger file is
\* reported as an error instead.
C8_VacuumReturnsNoGrowth ==
  vacL.result # Null => vacL.result[1].afterMb <= vacL.result[1].beforeMb

\* vacuumDatabase handed back a result that shows growth, and the run that
\* called it ended normally.
C8_Witness ==
  /\ pc = "exit"
  /\ exitCode = Some(0)
  /\ vacL.result # Null
  /\ vacL.result[1].afterMb > vacL.result[1].beforeMb

ReadOnlyKinds == {"COUNT", "SUM", "TABLES", "PRAGMA table_info", "TOP"}

\* countCategories is running or has returned.
InCountCategories == cntL.filePath # NoFile

\* analyzeGlobalStateVscdb is running or has returned, and no deletion
\* has been started after it.
InAnalyze == anL.filePath # NoFile /\ delL.filePath = NoFile

\* C9: while countCategories or analyzeGlobalStateVscdb runs, and after it
\* has returned, whether or not a query failed, every statement sent to the
\* engine is a SELECT or PRAGMA table_info, and the content and size of
\* every database file are what they were at the start.
C9_CountAndAnalyzeReadOnly ==
  (InCountCategories \/ InAnalyze)
    => /\ IssuedKinds \subseteq ReadOnlyKinds
       /\ db = start.db
       /\ size = start.size

\* An analysis of a database with rows went through both tables, one of its
\* queries having failed.
C9_Witness ==
  /\ InAnalyze
  /\ pc = "after_analyze"
  /\ db[anL.filePath] # EmptyDb
  /\ Len(calls) >= 5
  /\ \E i \in 1..Len(calls) : ~calls[i].ok

\* ------------------------------------- order and failure of PruneByPattern
KindSeq == [i \in 1..Len(calls) |-> calls[i].stmt.kind]

IsPrefix(a, b) == Len(a) <= Len(b) /\ \A i \in 1..Len(a) : a[i] = b[i]

\* deleteKeysAndVacuum is over, normally or by an exception.
DelOver == delL.filePath # NoFile /\ pc \in {"main_return", "exit"}

\* C11: in deleteKeysAndVacuum the engine statements come in the order
\* COUNT, DELETE, VACUUM, all on the one file; a DELETE that succeeded is
\* followed by a VACUUM on that file before the operation is over; and the
\* "Freed" figure is the file size before the DELETE minus the file size
\* after the VACUUM.
C11_DeleteThenVacuumAndFreed ==
  delL.filePath # NoFile =>
    /\ IsPrefix(KindSeq, <<"COUNT", "DELETE", "VACUUM">>)
    /\ \A i \in 1..Len(calls) : calls[i].file = delL.filePath
    /\ \A i \in 1..Len(calls) :
         (IsKind(i, "DELETE") /\ calls[i].ok /\ DelOver)
           => /\ i < Len(calls)
              /\ IsKind(i + 1, "VACUUM")
              /\ calls[i + 1].file = calls[i].file
    /\ \A k \in 1..Len(log) :
         log[k][1] = "Freed"
           => /\ Len(calls) = 3
              /\ calls[3].ok
              /\ log[k][2] = start.size[delL.filePath] - size[delL.filePath]

\* A delete that went through all three statements and freed 50 MB.
C11_Witness ==
  /\ DelCompleted
  /\ KindSeq = <<"COUNT", "DELETE", "VACUUM">>
  /\ InLog(<<"Freed", 50 * BytesPerMb>>)

\* C12: an engine failure at any step of deleteKeysAndVacuum (engine not
\* found, COUNT, DELETE or VACUUM failing) is the last thing the operation
\* does with the engine: nothing is sent after it, the failed statement is
\* not sent again, the run ends with exit status 1 and no "Freed" line, and
\* the rows a successful DELETE removed stay removed.
C12_FailureStopsOperation ==
  delL.filePath # NoFile =>
    /\ \A i \in 1..Len(calls) :
         ~calls[i].ok
           => /\ i = Len(calls)
              /\ pc = "exit"
              /\ exitCode = Some(1)
              /\ \A k \in 1..Len(log) : log[k][1] # "Freed"
    /\ (GetSqlite3Command = Null /\ pc # "del_locate")
         => calls = <<>> /\ pc = "exit" /\ exitCode = Some(1)
    /\ \A i \in 1..Len(calls) :
         (IsKind(i, "DELETE") /\ calls[i].ok)
           => /\ db[delL.filePath]
                   = AfterDelete(start.db[delL.filePath], calls[i].stmt)
              /\ DelRemoved # {}

\* The DELETE went through, the VACUUM after it failed: the rows are gone
\* and the run ended with status 1.
C12_Witness ==
  /\ pc = "exit"
  /\ exitCode = Some(1)
  /\ KindSeq = <<"COUNT", "DELETE", "VACUUM">>
  /\ calls[2].ok
  /\ ~calls[3].ok
  /\ DelRemoved # {}

\* ------------------------------------------------------------ exit status
\* The run met what cannot be recovered from: no engine was found when one
\* was looked for, or an engine execution failed.
EngineFailure ==
  \/ \E i \in 1..Len(calls) : ~calls[i].ok
  \/ probes > 0 /\ GetSqlite3Command = Null

\* C13: at the end of a run of any mode the exit status is zero exactly
\* when no engine failure occurred in the run (skipped files and missing
\* targets included), and non-zero exactly when the engine was not found or
\* an engine execution failed.
C13_ExitStatusTellsFailure ==
  pc = "exit" => (exitCode = Some(0) <=> ~EngineFailure)

\* A vacuum run whose VACUUM failed, with exit status 0.
C13_Witness ==
  /\ pc = "exit"
  /\ exitCode = Some(0)
  /\ InVacuumRun
  /\ \E i \in 1..Len(calls) : IsKind(i, "VACUUM") /\ ~calls[i].ok

HasFlag(name) == \E i \in 1..Len(argv) : argv[i] = Flag(name)

\* The files a VACUUM was sent for.
VacuumTargets == {calls[i].file : i \in {j \in 1..Len(calls) : IsKind(j, "VACUUM")}}

\* C14: a vacuum run given --global and not --workspace sends VACUUM only
\* for the global state database, never for a project-local or
\* workspaceStorage one.
C14_GlobalRunVacuumsGlobalOnly ==
  (InVacuumRun /\ HasFlag("--global") /\ ~HasFlag("--workspace"))
    => VacuumTargets \subseteq Range(GlobalCandidates)

\* Such a run that vacuumed a project-local database.
C14_Witness ==
  /\ InVacuumRun
  /\ HasFlag("--global")
  /\ ~HasFlag("--workspace")
  /\ pc = "exit"
  /\ VacuumTargets \cap Range(ProjectCandidates) # {}

\* C15: a vacuum run given --workspace and not --global sends no VACUUM for
\* the global state database.
C15_WorkspaceRunSparesGlobal ==
  (InVacuumRun /\ HasFlag("--workspace") /\ ~HasFlag("--global"))
    => VacuumTargets \cap Range(GlobalCandidates) = {}

\* Such a run that vacuumed the global database.
C15_Witness ==
  /\ InVacuumRun
  /\ HasFlag("--workspace")
  /\ ~HasFlag("--global")
  /\ pc = "exit"
  /\ VacuumTargets \cap Range(GlobalCandidates) # {}

\* ====================================== clear-cursor-cache.ps1: the script
tsVars ==
  <<pc, argv, options, exists, size, db, health, sqliteOnPath, winInstalled,
    calls, probes, log, exitCode, mainL, pruneL, vacL, delL, chkL, cntL, anL,
    start, cwd>>

\* $text -match '^[1-5]$'
MatchesOneToFive(text) ==
  Len(text) = 1 /\ text[1] \in {"1", "2", "3", "4", "5"}

\* $text -match '^[Kk]'
StartsWithK(text) == text # <<>> /\ text[1] \in {"K", "k"}

\* [int]::TryParse: white space around, an optional sign, and nothing but
\* digits between; Null when the text is no integer.
TryParseInt(text) ==
  LET t == Trim(text)
      signed == t # <<>> /\ Head(t) \in {"-", "+"}
      body == IF signed THEN Tail(t) ELSE t
  IN IF body = <<>> \/ \E k \in 1..Len(body) : ~IsDigit(body[k]) THEN Null
     ELSE Some(IF Head(t) = "-" THEN 0 - DigitsValue(body, 0)
               ELSE DigitsValue(body, 0))

\* Read-Host: the prompt and what was typed are remembered.
Ask(s, prompt, answer) == [s EXCEPT !.asked = Append(@, <<prompt, answer>>)]

\* & npx tsx prune-state-vscdb.ts @argList, with the status it ended with.
Run(s, argList, status) ==
  [s EXCEPT !.cmds = Append(@, [argv |-> argList, status |-> status])]

Say(s, line) == [s EXCEPT !.out = Append(@, line)]

ChoiceAnswers ==
  {<<"1">>, <<"2">>, <<"3">>, <<"4">>, <<"5">>, <<>>, <<"7">>, <<"1", "2">>}

\* $choice = Read-Host ...; if ($choice -notmatch '^[1-5]$') { ...; exit 0 }
ShReadChoice ==
  /\ sh.pc = "choice"
  /\ \E a \in ChoiceAnswers :
       LET s == Ask(sh, "Enter 1, 2, 3, 4, or 5", a)
       IN sh' = IF MatchesOneToFive(a)
                THEN [s EXCEPT !.choice = a, !.pc = "switch"]
                ELSE [Say(s, <<"No option selected. Exiting.">>) EXCEPT !.pc = "done"]
  /\ UNCHANGED <<tsVars, dirs>>

\* Clear-CacheDirs is entered: $allDirs, $totalFreed = 0
EnterClear(s, mode) ==
  [s EXCEPT !.mode = mode, !.list = DirsToClear(mode = "full"), !.i = 1,
            !.totalFreed = 0, !.pc = "clear"]

\* "1" { ...; Stop-CursorProcesses; Clear-CacheDirs -IncludeWorkspaceStorageAndHistory; ... }
ShFullCleanup ==
  /\ sh.pc = "switch"
  /\ sh.choice = <<"1">>
  /\ sh' = EnterClear([Say(sh, <<"Full cache cleanup">>) EXCEPT !.stopped = TRUE],
                      "full")
  /\ UNCHANGED <<tsVars, dirs>>

\* "4" { ...; Stop-CursorProcesses; Clear-CacheDirs; ... }
ShLightCleanup ==
  /\ sh.pc = "switch"
  /\ sh.choice = <<"4">>
  /\ sh' = EnterClear([Say(sh, <<"Light cleanup">>) EXCEPT !.stopped = TRUE],
                      "light")
  /\ UNCHANGED <<tsVars, dirs>>

\* A slip: the first failure ends the loop.
NextDirIndexStopping(i, n, removed) == IF removed THEN i + 1 ELSE n + 1

\* foreach ($dir in $allDirs): the catch lets the loop go on.
NextDirIndex(i, n, removed) == i + 1

\* One turn of the foreach of Clear-CacheDirs.
ShClearDir ==
  /\ sh.pc = "clear"
  /\ sh.i <= Len(sh.list)
  /\ LET dir == sh.list[sh.i]
         measured == dirs[dir].bytes
         n == Len(sh.list)
     IN IF dirs[dir].exists /\ measured > 0
        THEN \E removed \in BOOLEAN, left \in {0, measured} :
               /\ removed => left = 0
               /\ dirs' = [dirs EXCEPT ![dir] =
                             IF removed THEN AbsentDir
                             ELSE [exists |-> TRUE, entries |-> TRUE,
                                   bytes |-> left]]
               /\ sh' = [Say(Say(sh, <<"Clearing", dir, measured>>),
                             IF removed THEN <<"[OK]">> ELSE <<"[FAILED]">>)
                         EXCEPT
                           !.i = NextDirIndex(sh.i, n, removed),
                           !.totalFreed = IF removed THEN @ + measured ELSE @,
                           !.okDirs = IF removed THEN @ \cup {dir} ELSE @,
                           !.failedDirs = IF removed THEN @ ELSE @ \cup {dir}]
        ELSE /\ dirs' = dirs
             /\ sh' = [sh EXCEPT !.i = sh.i + 1]
  /\ UNCHANGED tsVars

\* Write-Host "Total freed: ..." and the line the menu option ends with.
ShClearDone ==
  /\ sh.pc = "clear"
  /\ sh.i > Len(sh.list)
  /\ sh' = [Say(Say(sh, <<"Total freed", sh.totalFreed>>),
                IF sh.mode = "full"
                THEN <<"Cursor will rebuild cache on next startup.">>
                ELSE <<"Workspace list and History kept.">>)
            EXCEPT !.pc = "done"]
  /\ UNCHANGED <<tsVars, dirs>>

PruneStatuses == {0, 1}

\* Invoke-PruneStateVscdb: the switches, then --threshold 0
PruneArgs(workspace, global) ==
  (IF workspace THEN <<Flag("--workspace")>> ELSE <<>>)
    \o (IF global THEN <<Flag("--global")>> ELSE <<>>)
    \o <<Flag("--threshold"), <<"0">>>>

InvokePruneStateVscdb(s, workspace, global, status) ==
  LET r == Run(s, PruneArgs(workspace, global), status)
  IN [(IF status # 0 THEN Say(r, <<"Prune script error.">>) ELSE r)
      EXCEPT !.pc = "done"]

\* "2" { ...; Invoke-PruneStateVscdb -Workspace }
ShPruneWorkspace ==
  /\ sh.pc = "switch"
  /\ sh.choice = <<"2">>
  /\ \E status \in PruneStatuses :
       sh' = InvokePruneStateVscdb(Say(sh, <<"Prune workspace state.vscdb">>),
                                   TRUE, FALSE, status)
  /\ UNCHANGED <<tsVars, dirs>>

\* "3" { ...; Invoke-PruneStateVscdb -Global }
ShPruneGlobal ==
  /\ sh.pc = "switch"
  /\ sh.choice = <<"3">>
  /\ \E status \in PruneStatuses :
       sh' = InvokePruneStateVscdb(Say(sh, <<"Prune global state.vscdb">>),
                                   FALSE, TRUE, status)
  /\ UNCHANGED <<tsVars, dirs>>

\* The five patterns of the sub-menu and the table of each.
MenuPatterns ==
  << [table |-> <<"cursorDiskKV">>, pattern |-> <<"bubbleId:", "%">>],
     [table |-> <<"cursorDiskKV">>, pattern |-> <<"checkpointId:", "%">>],
     [table |-> <<"cursorDiskKV">>, pattern |-> <<"composerData:", "%">>],
     [table |-> <<"cursorDiskKV">>, pattern |-> <<"agentKv:blob:", "%">>],
     [table |-> <<"ItemTable">>, pattern |-> <<"cursor.composer", "%">>] >>

SubNumber(text) == CHOOSE k \in 1..5 : Digits[k + 1] = text[1]

\* "5" { ...; npx tsx scripts/prune-state-vscdb.ts --analyze; ... }
ShAnalyze ==
  /\ sh.pc = "switch"
  /\ sh.choice = <<"5">>
  /\ \E status \in PruneStatuses :
       sh' = [Run(Say(sh, <<"Analyze global state.vscdb">>),
                  <<Flag("--analyze")>>, status)
              EXCEPT !.pc = "sub"]
  /\ UNCHANGED <<tsVars, dirs>>

SubAnswers ==
  {<<>>, <<"1">>, <<"2">>, <<"3">>, <<"4">>, <<"5">>, <<"6">>, <<"7">>,
   <<"Y">>}

\* $sub = Read-Host "Delete which pattern? (1-5, or Enter to skip)"
ShReadSub ==
  /\ sh.pc = "sub"
  /\ \E a \in SubAnswers :
       LET s == Ask(sh, "Delete which pattern? (1-5, or Enter to skip)", a)
       IN sh' = IF MatchesOneToFive(a)
                THEN [s EXCEPT !.sub = a,
                               !.table = MenuPatterns[SubNumber(a)].table,
                               !.pattern = Some(MenuPatterns[SubNumber(a)].pattern),
                               !.pc = "ak"]
                ELSE [s EXCEPT !.pc = "done"]
  /\ UNCHANGED <<tsVars, dirs>>

AkAnswers == {<<"A">>, <<"K">>, <<"k">>, <<>>, <<"N">>, <<"Y">>}

\* $ak = Read-Host "Delete (A)ll matching items, or (K)eep last N items? [A/K]"
ShReadAk ==
  /\ sh.pc = "ak"
  /\ \E a \in AkAnswers :
       sh' = [Ask(sh, "Delete (A)ll matching items, or (K)eep last N items? [A/K]", a)
              EXCEPT !.keepLast = Null,
                     !.pc = IF StartsWithK(a) THEN "keep" ELSE "run"]
  /\ UNCHANGED <<tsVars, dirs>>

KeepAnswers ==
  {<<"1", "0", "0">>, <<" ", "5", " ">>, <<"0">>, <<"-", "3">>,
   <<"a", "b", "c">>, <<>>, <<"5", "x">>}

\* $nStr = Read-Host "Keep how many items? (e.g. 100)"; TryParse and $n -gt 0
ShReadKeep ==
  /\ sh.pc = "keep"
  /\ \E a \in KeepAnswers :
       LET n == TryParseInt(a)
       IN sh' = [Ask(sh, "Keep how many items? (e.g. 100)", a)
                 EXCEPT !.keepLast = IF n # Null /\ n[1] > 0 THEN n ELSE Null,
                        !.pc = "run"]
  /\ UNCHANGED <<tsVars, dirs>>

\* $argList = @('--analyze', '--table', $table, '--delete-keys', $pattern)
\* if ($null -ne $keepLast) { $argList += '--keep-last'; $argList += $keepLast }
DeleteArgList(tbl, pattern, keepLast) ==
  <<Flag("--analyze"), Flag("--table"), tbl, Flag("--delete-keys"), pattern>>
    \o (IF keepLast # Null
        THEN <<Flag("--keep-last"), IntToText(keepLast[1])>> ELSE <<>>)

\* & npx tsx scripts/prune-state-vscdb.ts @argList, the error line and the
\* final note
ShRunDelete ==
  /\ sh.pc = "run"
  /\ \E status \in PruneStatuses :
       LET r == Run(sh, DeleteArgList(sh.table, sh.pattern[1], sh.keepLast),
                    status)
           e == IF status # 0 THEN Say(r, <<"Prune/delete error.">>) ELSE r
           f == IF sh.sub # <<"5">> THEN Say(e, <<"Final Note">>) ELSE e
       IN sh' = [f EXCEPT !.pc = "done"]
  /\ UNCHANGED <<tsVars, dirs>>

\* ------------------------------------------------- the script's runs
\* Bytes of the files under a directory that holds files.
DirBytes(dir) == (CHOOSE k \in 1..Len(AllDirs) : AllDirs[k] = dir) * BytesPerMb

DirKinds == {"empty", "zero bytes", "files"}

DirOfKind(dir, kind) ==
  CASE kind = "empty" -> EmptyDir
    [] kind = "zero bytes" -> ZeroByteDir
    [] OTHER -> FullDir(DirBytes(dir))

\* The disks with at most MaxDirs of the directories there.
DirConfigs ==
  UNION { { [d \in Range(AllDirs) |->
               IF d \in S THEN DirOfKind(d, kinds[d]) ELSE AbsentDir] :
            kinds \in [S -> DirKinds] } :
          S \in {T \in SUBSET Range(AllDirs) : Cardinality(T) <= MaxDirs} }

\* A disk with files in one cache directory of each root and in the two
\* directories the light cleanup holds back.
MenuDirs ==
  [d \in Range(AllDirs) |->
     IF d \in {AllDirs[2], AllDirs[6], AllDirs[11], AllDirs[12]}
     THEN FullDir(DirBytes(d)) ELSE AbsentDir]

\* prune-state-vscdb.ts is not running.
InitIdle ==
  /\ cwd = ProjectDir
  /\ pc = "(none)"
  /\ argv = <<>>
  /\ options = NoOptions
  /\ delL = NoDel
  /\ exists = {}
  /\ size = [f \in DbFiles |-> 0]
  /\ db = [f \in DbFiles |-> EmptyDb]
  /\ health = [f \in DbFiles |-> "ok"]
  /\ sqliteOnPath = FALSE
  /\ winInstalled = {}
  /\ calls = <<>>
  /\ probes = 0
  /\ log = <<>>
  /\ exitCode = Null
  /\ mainL = NoMain
  /\ pruneL = NoPrune
  /\ vacL = NoVac
  /\ chkL = NoChk
  /\ cntL = NoCnt
  /\ anL = NoAn
  /\ start = [db |-> db, size |-> size]

InitMenu ==
  /\ InitIdle
  /\ dirs \in {NoDirs, MenuDirs}
  /\ sh = [NoShell EXCEPT !.pc = "choice", !.dirs0 = dirs]

NextMenu ==
  \/ ShReadChoice
  \/ ShFullCleanup
  \/ ShLightCleanup
  \/ ShClearDir
  \/ ShClearDone
  \/ ShPruneWorkspace
  \/ ShPruneGlobal
  \/ ShAnalyze
  \/ ShReadSub
  \/ ShReadAk
  \/ ShReadKeep
  \/ ShRunDelete

SpecMenu == InitMenu /\ [][NextMenu]_vars

\* Clear-CacheDirs on its own, with or without the switch.
InitClear ==
  /\ InitIdle
  /\ dirs \in DirConfigs
  /\ \E mode \in {"full", "light"} :
       sh = EnterClear([NoShell EXCEPT !.dirs0 = dirs, !.stopped = TRUE], mode)

NextClear ==
  \/ ShClearDir
  \/ ShClearDone

SpecClear == InitClear /\ [][NextClear]_vars

\* ------------------------------------------------- properties of the script
\* The command asks prune-state-vscdb.ts to delete keys.
IsDeleteCommand(cmd) ==
  \E k \in 1..Len(cmd.argv) : cmd.argv[k] = Flag("--delete-keys")

\* The user was asked "Are you sure? [Y/N]" and answered Y.
Confirmed ==
  \E j \in 1..Len(sh.asked) :
    /\ sh.asked[j][1] = "Are you sure? [Y/N]"
    /\ sh.asked[j][2] \in {<<"Y">>, <<"y">>}

\* C16: the menu script runs a delete-by-pattern command only after the
\* user answered Y to "Are you sure? [Y/N]".
C16_DeleteOnlyAfterConfirmation ==
  (\E k \in 1..Len(sh.cmds) : IsDeleteCommand(sh.cmds[k])) => Confirmed

\* A delete of all bubbleId: keys was run after the pattern choice and the
\* A/K answer alone.
C16_Witness ==
  /\ sh.pc = "done"
  /\ Len(sh.asked) = 3
  /\ ~Confirmed
  /\ \E k \in 1..Len(sh.cmds) :
       sh.cmds[k].argv = <<Flag("--analyze"), Flag("--table"), <<"cursorDiskKV">>,
                           Flag("--delete-keys"), <<"bubbleId:", "%">>>>

RECURSIVE SumBytes(_, _)
SumBytes(S, f) ==
  IF S = {} THEN 0
  ELSE LET d == CHOOSE x \in S : TRUE
       IN f[d].bytes + SumBytes(S \ {d}, f)

\* The directories of the list the loop has been through.
Visited == {sh.list[k] : k \in 1..Min(sh.i - 1, Len(sh.list))}

\* The loop of Clear-CacheDirs is over.
ClearOver == sh.mode # "(none)" /\ sh.i > Len(sh.list)

\* C18 as amended: Clear-CacheDirs goes through every directory of its list
\* whatever happened to the ones before; a directory that exists and whose
\* files measure more than 0 bytes ends in exactly one of succeeded (and is
\* gone) or failed (and is still there); any other directory, one holding
\* only empty files or empty sub-directories included, ends in neither and
\* is left as it was; and the total freed is the sum of the measured sizes
\* of the directories whose deletion succeeded.
C18_EveryMeasuredDirAttempted ==
  sh.mode # "(none)" =>
    /\ sh.i <= Len(sh.list) + 1
    /\ sh.okDirs \cap sh.failedDirs = {}
    /\ sh.okDirs \cup sh.failedDirs
         = {d \in Visited : sh.dirs0[d].exists /\ sh.dirs0[d].bytes > 0}
    /\ \A d \in sh.okDirs : ~dirs[d].exists
    /\ \A d \in sh.failedDirs : dirs[d].exists
    /\ \A d \in Range(AllDirs) \ (sh.okDirs \cup sh.failedDirs) :
         dirs[d] = sh.dirs0[d]
    /\ sh.totalFreed = SumBytes(sh.okDirs, sh.dirs0)
    /\ ClearOver => Visited = Range(sh.list)
    /\ sh.pc = "done" => ClearOver

\* The first directory with files could not be deleted, a later one could.
C18_Witness ==
  /\ sh.pc = "done"
  /\ \E k, m \in 1..Len(sh.list) :
       /\ k < m
       /\ sh.list[k] \in sh.failedDirs
       /\ sh.list[m] \in sh.okDirs
       /\ sh.totalFreed = sh.dirs0[sh.list[m]].bytes

\* C18 as stated: at the end every directory of the list that exists and is
\* not empty is in exactly one of succeeded or failed.
C18_EveryNonEmptyDirAttempted ==
  ClearOver =>
    \A d \in Range(sh.list) :
      (sh.dirs0[d].exists /\ sh.dirs0[d].entries)
        => (d \in sh.okDirs) # (d \in sh.failedDirs)

ProtectedDirs ==
  { CursorUserDir("LOCALAPPDATA", "workspaceStorage"),
    CursorUserDir("LOCALAPPDATA", "History") }

CacheDirs ==
  {CursorDir(root, CacheNames[k]) : root \in {"APPDATA", "LOCALAPPDATA"},
                                    k \in 1..Len(CacheNames)}

\* C19: the light cleanup (menu option 4) never has workspaceStorage or
\* History in its list and leaves both as they were; the full cleanup (menu
\* option 1) has both in its list; and the lists of the two cleanups hold
\* the same ten cache directories.
C19_LightCleanupSparesProtected ==
  sh.mode # "(none)" =>
    /\ Range(sh.list) \ ProtectedDirs = CacheDirs
    /\ sh.mode = "light"
         => /\ Range(sh.list) \cap ProtectedDirs = {}
            /\ \A d \in ProtectedDirs :
                 /\ dirs[d] = sh.dirs0[d]
                 /\ d \notin sh.okDirs \cup sh.failedDirs
    /\ sh.mode = "full" => ProtectedDirs \subseteq Range(sh.list)
    /\ (\E d \in ProtectedDirs : dirs[d] # sh.dirs0[d])
         => sh.choice = <<"1">>

\* A light cleanup that deleted the cache directories and left
\* workspaceStorage and History, both holding files, alone.
C19_Witness ==
  /\ sh.pc = "done"
  /\ sh.choice = <<"4">>
  /\ sh.okDirs = {AllDirs[2], AllDirs[6]}
  /\ \A d \in ProtectedDirs : dirs[d].exists /\ dirs[d].bytes > 0

\* ------------------------------------------------ the batch integrity check
\* main is in, or through, the loop over getAllStateVscdbPaths() of
\* --check-integrity without --global-only.
InBatchCheck ==
  /\ pc \notin {"main", "dispatch"}
  /\ ~options.countCategories
  /\ options.checkIntegrity
  /\ ~options.globalOnlyIntegrity
  /\ mainL.all # <<>>

Discovered == [k \in 1..Len(mainL.all) |-> mainL.all[k].path]

\* The files quick_check was sent for, in the order sent.
QuickFiles ==
  LET F[k \in 0..Len(calls)] ==
        IF k = 0 THEN <<>>
        ELSE IF IsKind(k, "PRAGMA quick_check")
             THEN Append(F[k - 1], calls[k].file) ELSE F[k - 1]
  IN F[Len(calls)]

\* Both checks ran on the file and both printed ok.
PassedBoth(f) ==
  /\ health[f] = "ok"
  /\ \E i \in CallsOn(f) : IsKind(i, "PRAGMA quick_check") /\ calls[i].ok
  /\ \E i \in CallsOn(f) : IsKind(i, "PRAGMA integrity_check") /\ calls[i].ok

BatchSummary(n, m) == <<"Integrity check complete", n, m>>

PathsProbedFrom(dir) ==
  Range(ProjectCandidatesIn(dir)) \cup Range(WorkspaceStorageDbs)
    \cup Range(GlobalCandidates)

\* A vacuum run with the default threshold over small files: every
\* combination of the probed paths being there or not, from a project
\* directory and from the workspaceStorage directory, where the project
\* candidates are found again by the workspaceStorage scan.
InitPaths ==
  /\ cwd \in {ProjectDir, WsRoot}
  /\ pc = "main"
  /\ argv = <<>>
  /\ options = NoOptions
  /\ delL = NoDel
  /\ exists \in SUBSET PathsProbedFrom(cwd)
  /\ size = [f \in DbFiles |-> IF f \in exists THEN 10 * BytesPerMb ELSE 0]
  /\ db = [f \in DbFiles |-> EmptyDb]
  /\ health = [f \in DbFiles |-> "ok"]
  /\ sqliteOnPath = TRUE
  /\ winInstalled = {}
  /\ InitRun

NextPaths ==
  \/ MainParse
  \/ MainVacuumRun
  \/ PruneStart
  \/ PruneReturned
  \/ MainReturn

SpecPaths == InitPaths /\ [][NextPaths]_vars

PathsOf(all) == [k \in 1..Len(all) |-> all[k].path]

-----------------------------------------------------------------------------
(* Part 15: locating the engine, and how its failures are reported.        *)

\* C21: within one run the engine is looked up at most once, however many
\* operations the run performs (analysis followed by a prune, a vacuum run
\* over several databases, a batch integrity check).
C21_EngineLocatedAtMostOnce == probes <= 1

\* A finished --analyze --delete-keys run that looked the engine up twice.
C21_Witness ==
  /\ pc = "exit"
  /\ HasFlag("--analyze")
  /\ "DELETE" \in IssuedKinds
  /\ probes = 2

\* The hint vacuumDatabase appends to a failed VACUUM.
CloseIdeHint == VacuumFailed.hint

\* The errors the run has reported: every log line ends with the error it
\* reports when it reports one.
ReportedErrors ==
  {log[k][Len(log[k])] : k \in {j \in 1..Len(log) :
      log[j][1] \in {"uncaught", "Error pruning", "Error running check",
                     "Error", "Analysis failed", "Skipping"}}}

\* C22: every reported failure of an engine execution (COUNT, DELETE,
\* VACUUM, PRAGMA, SELECT) carries the hint that the IDE should be closed.
C22_ExecutionFailuresCarryHint ==
  \A err \in ReportedErrors :
     err # EngineNotFound => err.hint = CloseIdeHint

\* A failed PRAGMA reported by the integrity check without the hint.
C22_Witness ==
  \E k \in 1..Len(log) :
     /\ log[k][1] = "Error running check"
     /\ log[k][2].error = "PRAGMA quick_check"
     /\ log[k][2].hint # CloseIdeHint


-----------------------------------------------------------------------------
(* Part 16: the result of checkIntegrity.                                  *)

\* The engine printed the single line ok.
PrintsOk(out) == \E eol \in Eols : out = OkLine \o eol

QuickPrintsOk(f) == \A eol \in Eols : PrintsOk(QuickCheckOutput(health[f], eol))
IntegrityPrintsOk(f) ==
  \A eol \in Eols : PrintsOk(IntegrityCheckOutput(health[f], eol))

PragmaKinds == {"PRAGMA quick_check", "PRAGMA integrity_check"}

\* A PRAGMA of the check failed to run on the file.
PragmaFailedOn(f) ==
  \E i \in CallsOn(f) : calls[i].stmt.kind \in PragmaKinds /\ ~calls[i].ok

\* C23: checkIntegrity returns true exactly when quick_check printed ok and
\* integrity_check printed ok; any other output, and a PRAGMA that fails to
\* run, make it return false, and that failure is never raised to the caller.
C23_PassIffBothChecksPrintOk ==
  /\ pc = "int_next" => chkL.result # Null
  /\ chkL.result # Null =>
       /\ chkL.result \in {Some(TRUE), Some(FALSE)}
       /\ chkL.result = Some(TRUE) <=>
            /\ QuickPrintsOk(chkL.filePath)
            /\ IntegrityPrintsOk(chkL.filePath)
            /\ ~PragmaFailedOn(chkL.filePath)
  /\ \A k \in 1..Len(log) :
       log[k][1] = "uncaught" => log[k][2].error \notin PragmaKinds

\* quick_check printed ok, integrity_check ran and printed errors, and the
\* check came back false.
C23_Witness ==
  /\ chkL.result = Some(FALSE)
  /\ health[chkL.filePath] = "index damaged"
  /\ \E i \in CallsOn(chkL.filePath) :
       IsKind(i, "PRAGMA integrity_check") /\ calls[i].ok
  /\ exitCode # Some(1)


-----------------------------------------------------------------------------
(* Part 17: which runs delete rows.                                        *)

\* The combination of flags under which main reaches deleteKeysAndVacuum.
DeleteAllowedByFlags ==
  /\ HasFlag("--analyze")
  /\ HasFlag("--delete-keys")
  /\ ~HasFlag("--count-categories")
  /\ ~HasFlag("--check-integrity")

DeleteCalls == {i \in 1..Len(calls) : IsKind(i, "DELETE")}

-----------------------------------------------------------------------------
(* Part 18: the retention count.                                           *)

\* The values given with --keep-last on the command line.
KeepLastValues ==
  {argv[i + 1] : i \in {j \in 1..(Len(argv) - 1) : argv[j] = Flag("--keep-last")}}

\* The text is the decimal numeral of an integer >= 1.
IsPositiveNumeral(text) ==
  /\ text # <<>>
  /\ \A k \in 1..Len(text) : IsDigit(text[k])
  /\ \E k \in 1..Len(text) : text[k] # "0"

\* --keep-last was given, with a value that is zero, negative or non-numeric.
KeepLastInvalid ==
  /\ KeepLastValues # {}
  /\ \A v \in KeepLastValues : ~IsPositiveNumeral(v)

\* The parsed retention count is absent or an integer >= 1, and no keep-last
\* DELETE carries a limit below 1.
KeepLastAbsentOrPositive ==
  /\ pc # "main" => options.keepLast = Null \/ options.keepLast[1] >= 1
  /\ \A i \in DeleteCalls :
       calls[i].stmt.limit = Null \/ calls[i].stmt.limit[1] >= 1

\* C25: the parsed retention count is absent or an integer >= 1; a
\* --keep-last value that is zero, negative or non-numeric is treated as if
\* the option had been omitted, so the prune that follows deletes all
\* matching rows; no keep-last DELETE carries a limit below 1.
C25_InvalidKeepLastIsOmitted ==
  /\ KeepLastAbsentOrPositive
  /\ pc # "main" /\ KeepLastInvalid => options.keepLast = Null
  /\ DelCompleted /\ KeepLastInvalid => DelMatchedNow = {}

\* A finished prune given --keep-last 1x that kept a matching row.
C25_Witness ==
  /\ DelCompleted
  /\ KeepLastValues = {<<"1", "x">>}
  /\ options.keepLast = Some(1)
  /\ DelRemoved # {}
  /\ DelMatchedNow # {}


-----------------------------------------------------------------------------
(* Part 19: the order of the discovered databases.                         *)

\* The candidate a first-existing probe offers, if any.
Offered(cands) ==
  LET S == {k \in 1..Len(cands) : cands[k] \in exists}
  IN IF S = {} THEN <<>>
     ELSE <<cands[CHOOSE k \in S : \A j \in S : k <= j]>>

Labelled(paths, label) ==
  [k \in 1..Len(paths) |-> [path |-> paths[k], label |-> label]]

\* What the probes offer, in the order they are made: the project database,
\* each workspaceStorage database, the global database.
ProbeSequence ==
  Labelled(Offered(ProjectCandidates), "Workspace (project) state.vscdb")
    \o Labelled(WorkspaceStorageDbs, "WorkspaceStorage state.vscdb")
    \o Labelled(Offered(GlobalCandidates), "Global state.vscdb")

\* The first probe that offers the path.
ProbeRank(p) ==
  LET S == {k \in 1..Len(ProbeSequence) : ProbeSequence[k].path = p}
  IN CHOOSE k \in S : \A j \in S : k <= j

LabelRank(label) ==
  IF label = "Workspace (project) state.vscdb" THEN 1
  ELSE IF label = "WorkspaceStorage state.vscdb" THEN 2 ELSE 3

\* C26: the list of getAllStateVscdbPaths is in probe order: the project
\* database first, then the workspaceStorage databases, the global database
\* last; a later call on the same file system gives the same list; and a
\* file offered by two probes stands where the earlier probe put it, with
\* the earlier probe's label.
C26_ListInProbeOrder ==
  /\ \A k \in 1..Len(GetAllStateVscdbPaths) :
       /\ \E j \in 1..Len(ProbeSequence) :
            ProbeSequence[j].path = GetAllStateVscdbPaths[k].path
       /\ GetAllStateVscdbPaths[k].label
            = ProbeSequence[ProbeRank(GetAllStateVscdbPaths[k].path)].label
  /\ \A j, k \in 1..Len(GetAllStateVscdbPaths) :
       j < k =>
         /\ ProbeRank(GetAllStateVscdbPaths[j].path)
              < ProbeRank(GetAllStateVscdbPaths[k].path)
         /\ LabelRank(GetAllStateVscdbPaths[j].label)
              <= LabelRank(GetAllStateVscdbPaths[k].label)
  /\ pc \notin {"main", "dispatch"} => GetAllStateVscdbPaths = mainL.all

\* Run from the workspaceStorage directory with both of its own databases
\* there: .vscode/state.vscdb is the project database and stands first under
\* the project label although the workspaceStorage scan meets .cursor before
\* it and offers it again; the global database is last.
C26_Witness ==
  /\ cwd = WsRoot
  /\ pc = "exit"
  /\ exists = {WorkspaceStorageDbs[1], WorkspaceStorageDbs[2],
               WorkspaceStorageDbs[4], GlobalCandidates[1]}
  /\ mainL.all =
       << [path |-> WorkspaceStorageDbs[2],
           label |-> "Workspace (project) state.vscdb"],
          [path |-> WorkspaceStorageDbs[1],
           label |-> "WorkspaceStorage state.vscdb"],
          [path |-> WorkspaceStorageDbs[4],
           label |-> "WorkspaceStorage state.vscdb"],
          [path |-> GlobalCandidates[1], label |-> "Global state.vscdb"] >>

====
